---- MODULE Spec2Model ----
(***************************************************************************)
(* RetroUI terminal toolkit: the ScreenManager run loop (setup, keyboard   *)
(* worker, resize handler, cooperative scheduler, teardown), the input     *)
(* decoder getch, the row encoder line_to_terminal_line and the first      *)
(* responder hand-over of Application and Panel.                          *)
(*                                                                         *)
(* Python strings are sequences of code points, so that a decoded key name *)
(* ("Up" = <<85, 112>>) and the same two characters read raw are the same  *)
(* value, as they are in the program.                                      *)
(***************************************************************************)
EXTENDS Integers, Sequences, FiniteSets, TLC

VARIABLES
    \* ---- ScreenManager.run_app: the main thread
    pc,                 \* position of the main thread in run_app
    outcome,            \* how run_app ended: "running", "returned" or the exception raised
    should_exit,        \* screen.py:311
    err,                \* screen.py:329/331 ("unbound" until an except clause binds it)
    msg,                \* screen.py:318, the event dequeued last (NoEvent when none)
    main_queue,         \* ScreenManager._main_queue
    kb_monitor,         \* the keyboard worker process: "none", "running", "crashed", "terminated"
    sigwinch,           \* which SIGWINCH handler is installed: "old" or "resize_handler"
    sig_pending,        \* a SIGWINCH was raised and its handler has not run yet
    \* ---- ScreenManager fields
    width, height,
    cursor_is_visible, cursor_position,
    original_terminal_settings,
    application_cursor_is_visible, application_cursor_position,
    screen_contents,
    \* ---- the terminal (external resource)
    term_size, term_attrs, term_cursor, term_alt,
    \* ---- the hosted computation
    hosted,             \* "Application" (application.py) or "Generator" (any other generator)
    main_view,          \* Application._main_view: NoView, the view's size, or <<the view>>
    \* ---- bookkeeping of the run
    teardown_calls,     \* how many times teardown was entered
    teardown_done,      \* teardown ran to its last line
    repaints,           \* full-screen writes since the last dequeue
    handled,            \* kind of the event the last frame handled
    app_end,            \* how the last resumption of the hosted computation ended
    delivered,          \* events the hosted computation was resumed with, in order
    n_events,           \* events constructed so far (the next event's identity)
    n_reads, n_resizes, \* reads of stdin / terminal resizes so far
    \* ---- getch on one read
    g_in, g_out, g_pc,
    \* ---- one row through Application.run_with_screen and ScreenManager.draw
    e_tixels, e_width, e_line, e_out, e_pc,
    \* ---- first responder hand-over
    fr_app, fr_panel, fr_calls, fr_last, fr_state,
    \* ---- one key press through the responder chain
    d_chain,            \* the views from the first responder up, each with its superview next
    d_linked,           \* the topmost view's `application` is set
    d_key_panel,        \* the Application has a key panel
    d_ev,               \* the Event dispatched
    d_calls,            \* key_press / no_responder / send_event calls of the dispatch, in order
    d_raised,           \* the exception that left the dispatch ("none" when it returned)
    d_pc,
    \* ---- panels and views of one Application
    panels,             \* the Panel objects, by name
    views,              \* the View objects, by name
    main_panel,         \* Application.main_panel
    key_panel,          \* the Application's key panel
    non_main_panels,    \* the Application's auxiliary panels, in insertion order
    l_last,             \* the operation performed last
    drawn,              \* what the last draw() returned or raised
    l_ops,              \* operations performed so far
    \* ---- constrain_size applied twice to one view
    c_view,             \* the view object
    c_s,                \* the proposed size
    c_once,             \* the result of constrain_size(s)
    c_twice,            \* the result of constrain_size(constrain_size(s))
    c_pc

runVars  == <<pc, outcome, should_exit, err, msg, main_queue, kb_monitor, sigwinch, sig_pending>>
smVars   == <<width, height, cursor_is_visible, cursor_position, original_terminal_settings,
              application_cursor_is_visible, application_cursor_position, screen_contents>>
termVars == <<term_size, term_attrs, term_cursor, term_alt>>
appVars  == <<hosted, main_view>>
histVars == <<teardown_calls, teardown_done, repaints, handled, app_end, delivered, n_events,
              n_reads, n_resizes>>
getchVars  == <<g_in, g_out, g_pc>>
encodeVars == <<e_tixels, e_width, e_line, e_out, e_pc>>
frVars     == <<fr_app, fr_panel, fr_calls, fr_last, fr_state>>
dispatchVars == <<d_chain, d_linked, d_key_panel, d_ev, d_calls, d_raised, d_pc>>
layoutVars == <<panels, views, main_panel, key_panel, non_main_panels, l_last, drawn, l_ops>>
constrainVars == <<c_view, c_s, c_once, c_twice, c_pc>>
uiVars == <<dispatchVars, layoutVars, constrainVars>>
offRun == <<getchVars, encodeVars, frVars, uiVars>>
vars == <<runVars, smVars, termVars, appVars, histVars, getchVars, encodeVars, frVars, uiVars>>

-----------------------------------------------------------------------------
(* Bounds of the model.                                                    *)

MaxReadLen == 3     \* longest read of stdin enumerated over GetchAlphabet
MaxReads == 2       \* reads of stdin the worker performs in one run
MaxResizes == 2     \* terminal resizes in one run
MaxRow == 3         \* longest row of tixels encoded
MaxCalls == 3       \* set_first_responder calls in one run
MaxDraws == 2       \* Screen.draw calls of one frame of a hosted generator
MaxChain == 3       \* views in a responder chain, the first responder included
MaxOps == 3         \* operations on the panels and views of one run
MaxGridRows == 2    \* rows of a grid handed to bound_lines

-----------------------------------------------------------------------------
(* Small helpers.                                                          *)

Max(a, b) == IF a >= b THEN a ELSE b

SeqsUpTo(S, n) == UNION { [1..k -> S] : k \in 0..n }

\* Python s[:n] and s[n:] for n >= 0
Take(s, n) == SubSeq(s, 1, IF n < Len(s) THEN n ELSE Len(s))
Drop(s, n) == SubSeq(s, n + 1, Len(s))

-----------------------------------------------------------------------------
(* Input decoding: screen.py ESCAPE_SEQUENCES, MODIFIERS, getch.           *)

ESCAPE_SEQUENCES ==
    { <<<<27, 91, 49, 126>>, <<72, 111, 109, 101>>>>,  \* ESC[1~ : Home
      <<<<27, 91, 50, 126>>, <<73, 110, 115, 101, 114, 116>>>>,  \* ESC[2~ : Insert
      <<<<27, 91, 51, 126>>, <<68, 101, 108, 101, 116, 101>>>>,  \* ESC[3~ : Delete
      <<<<27, 91, 52, 126>>, <<69, 110, 100>>>>,  \* ESC[4~ : End
      <<<<27, 91, 53, 126>>, <<80, 97, 103, 101, 85, 112>>>>,  \* ESC[5~ : PageUp
      <<<<27, 91, 54, 126>>, <<80, 97, 103, 101, 68, 111, 119, 110>>>>,  \* ESC[6~ : PageDown
      <<<<27, 91, 55, 126>>, <<72, 111, 109, 101>>>>,  \* ESC[7~ : Home
      <<<<27, 91, 56, 126>>, <<69, 110, 100>>>>,  \* ESC[8~ : End
      <<<<27, 91, 49, 48, 126>>, <<70, 48>>>>,  \* ESC[10~ : F0
      <<<<27, 91, 49, 49, 126>>, <<70, 49>>>>,  \* ESC[11~ : F1
      <<<<27, 91, 49, 50, 126>>, <<70, 50>>>>,  \* ESC[12~ : F2
      <<<<27, 91, 49, 51, 126>>, <<70, 51>>>>,  \* ESC[13~ : F3
      <<<<27, 91, 49, 52, 126>>, <<70, 52>>>>,  \* ESC[14~ : F4
      <<<<27, 91, 49, 53, 126>>, <<70, 53>>>>,  \* ESC[15~ : F5
      <<<<27, 91, 49, 55, 126>>, <<70, 54>>>>,  \* ESC[17~ : F6
      <<<<27, 91, 49, 56, 126>>, <<70, 55>>>>,  \* ESC[18~ : F7
      <<<<27, 91, 49, 57, 126>>, <<70, 56>>>>,  \* ESC[19~ : F8
      <<<<27, 91, 50, 48, 126>>, <<70, 57>>>>,  \* ESC[20~ : F9
      <<<<27, 91, 50, 49, 126>>, <<70, 49, 48>>>>,  \* ESC[21~ : F10
      <<<<27, 91, 50, 51, 126>>, <<70, 49, 49>>>>,  \* ESC[23~ : F11
      <<<<27, 91, 50, 52, 126>>, <<70, 49, 50>>>>,  \* ESC[24~ : F12
      <<<<27, 91, 50, 53, 126>>, <<70, 49, 51>>>>,  \* ESC[25~ : F13
      <<<<27, 91, 50, 54, 126>>, <<70, 49, 52>>>>,  \* ESC[26~ : F14
      <<<<27, 91, 50, 56, 126>>, <<70, 49, 53>>>>,  \* ESC[28~ : F15
      <<<<27, 91, 50, 57, 126>>, <<70, 49, 54>>>>,  \* ESC[29~ : F16
      <<<<27, 91, 51, 49, 126>>, <<70, 49, 55>>>>,  \* ESC[31~ : F17
      <<<<27, 91, 51, 50, 126>>, <<70, 49, 56>>>>,  \* ESC[32~ : F18
      <<<<27, 91, 51, 51, 126>>, <<70, 49, 57>>>>,  \* ESC[33~ : F19
      <<<<27, 91, 51, 52, 126>>, <<70, 50, 48>>>>,  \* ESC[34~ : F20
      <<<<27, 91, 65>>, <<85, 112>>>>,  \* ESC[A : Up
      <<<<27, 91, 66>>, <<68, 111, 119, 110>>>>,  \* ESC[B : Down
      <<<<27, 91, 67>>, <<82, 105, 103, 104, 116>>>>,  \* ESC[C : Right
      <<<<27, 91, 68>>, <<76, 101, 102, 116>>>>,  \* ESC[D : Left
      <<<<27, 91, 70>>, <<69, 110, 100>>>>,  \* ESC[F : End
      <<<<27, 91, 72>>, <<72, 111, 109, 101>>>>,  \* ESC[H : Home
      <<<<27, 91, 49, 80>>, <<70, 49>>>>,  \* ESC[1P : F1
      <<<<27, 91, 49, 81>>, <<70, 50>>>>,  \* ESC[1Q : F2
      <<<<27, 91, 49, 82>>, <<70, 51>>>>,  \* ESC[1R : F3
      <<<<27, 91, 49, 83>>, <<70, 52>>>> }  \* ESC[1S : F4

MODIFIERS ==
    { <<<<27, 91, 49, 59, 50>>, {"Shift"}>>,  \* ESC[1;2
      <<<<27, 91, 49, 59, 51>>, {"Alt"}>>,  \* ESC[1;3
      <<<<27, 91, 49, 59, 52>>, {"Shift", "Alt"}>>,  \* ESC[1;4
      <<<<27, 91, 49, 59, 53>>, {"Ctrl"}>>,  \* ESC[1;5
      <<<<27, 91, 49, 59, 55>>, {"Ctrl", "Alt"}>> }  \* ESC[1;7

CSI == <<27, 91>>

InTable(table, key) == \E e \in table : e[1] = key
Lookup(table, key) == (CHOOSE e \in table : e[1] = key)[2]

\* str(bytes, encoding='ascii'): bytes above 127 raise UnicodeDecodeError
AsciiDecodable(bytes) == \A i \in 1..Len(bytes) : bytes[i] < 128

KeyTuple(ch, ctrl, alt, shift) ==
    [exc |-> "none", ch |-> ch, ctrl |-> ctrl, alt |-> alt, shift |-> shift]

GetchRaises(e) ==
    [exc |-> e, ch |-> <<>>, ctrl |-> FALSE, alt |-> FALSE, shift |-> FALSE]

\* screen.py:607-623, getch after the read was decoded to a str
getch_decode(char_with_mods) ==
        IF Len(char_with_mods) = 1
        THEN KeyTuple(char_with_mods, FALSE, FALSE, FALSE)
        ELSE IF InTable(ESCAPE_SEQUENCES, char_with_mods)
        THEN KeyTuple(Lookup(ESCAPE_SEQUENCES, char_with_mods), FALSE, FALSE, FALSE)
        ELSE IF InTable(MODIFIERS, Take(char_with_mods, 5))
                /\ InTable(ESCAPE_SEQUENCES, CSI \o Drop(char_with_mods, 5))
        THEN LET mods == Lookup(MODIFIERS, Take(char_with_mods, 5))
             IN  KeyTuple(Lookup(ESCAPE_SEQUENCES, CSI \o Drop(char_with_mods, 5)),
                          "Ctrl" \in mods, "Alt" \in mods, "Shift" \in mods)
        ELSE KeyTuple(char_with_mods, FALSE, FALSE, FALSE)

\* ScreenManager.getch applied to the bytes one os.read(stdin, 128) returned
getch(bytes) ==
    IF ~AsciiDecodable(bytes)
    THEN GetchRaises("UnicodeDecodeError")
    ELSE getch_decode(bytes)

-----------------------------------------------------------------------------
(* Output encoding: tixel.py render_to_screen_tixel, application.py:169-178, *)
(* screen.py enforce_screen_width, line_to_terminal_line.                  *)
(*                                                                         *)
(* A colour value is <<r, g, b>>, no colour is <<>>.  A ScreenColor is an   *)
(* object: <<identity, r, g, b>>.  ScreenColor defines no __eq__, so the    *)
(* program's != on two ScreenColors compares identities.                   *)

NoColor == <<>>
Red   == <<255, 0, 0>>      \* color.py:41
Black == <<0, 0, 0>>        \* color.py:37
White == <<255, 255, 255>>  \* color.py:40

Palette == {NoColor, Red, Black}

Tixel(ch, fg, bg) == [character |-> ch, foreground_color |-> fg, background_color |-> bg]

Tixels == { Tixel(65, fg, bg) : fg \in Palette, bg \in Palette }

ScreenColor(id, rgb) == <<id>> \o rgb
Rgb(c) == Drop(c, 1)

\* Python's default != on objects
ObjectsDiffer(a, b) == a[1] # b[1]

ScreenTixel(ch, fg, bg) == [character |-> ch, foreground |-> fg, background |-> bg]

\* Tixel.render_to_screen_tixel: (character, fg triple or None, bg triple or None)
render_to_screen_tixel(tx) == <<tx.character, tx.foreground_color, tx.background_color>>

\* application.py:169-178: every tixel gets ScreenColor objects of its own
RenderedLine(line) ==
    [i \in 1..Len(line) |->
        LET scrtx == render_to_screen_tixel(line[i])
        IN  ScreenTixel(scrtx[1],
                        IF scrtx[2] = NoColor THEN NoColor ELSE ScreenColor(2 * i - 1, scrtx[2]),
                        IF scrtx[3] = NoColor THEN NoColor ELSE ScreenColor(2 * i, scrtx[3]))]

\* screen.py:389-392: one padding ScreenTixel object, repeated
enforce_screen_width(tixels, w) ==
    IF Len(tixels) < w
    THEN tixels \o [i \in 1..(w - Len(tixels)) |->
                       ScreenTixel(32, ScreenColor(2 * Len(tixels) + 1, Black),
                                       ScreenColor(2 * Len(tixels) + 2, Black))]
    ELSE Take(tixels, w)   \* w >= 0: widths come from os.get_terminal_size

RECURSIVE Decimal(_)
Decimal(n) == IF n < 10 THEN <<48 + n>> ELSE Decimal(n \div 10) \o <<48 + (n % 10)>>

\* '\x1b[38;2;{};{};{}m' and '\x1b[48;2;{};{};{}m'
FgPrefix == <<27, 91, 51, 56, 59, 50, 59>>
BgPrefix == <<27, 91, 52, 56, 59, 50, 59>>
ResetCode == <<27, 91, 48, 109>>
SgrColor(prefix, c) ==
    prefix \o Decimal(c[2]) \o <<59>> \o Decimal(c[3]) \o <<59>> \o Decimal(c[4]) \o <<109>>

\* the comparison of line 457 / 463 on a cell after the first
ColorChanged(c, current) == c # NoColor /\ ObjectsDiffer(c, current)

\* screen.py:434-469, one iteration of the loop over the cells
EncodeCell(st, i, tx) ==
    LET fg == tx.foreground
        bg == tx.background
    IN  IF i = 1
        THEN LET fg_color == IF fg = NoColor THEN ScreenColor(-3, White) ELSE fg
                 bg_color == IF bg = NoColor THEN ScreenColor(-4, Black) ELSE bg
             IN  [terminal_line |-> st.terminal_line \o SgrColor(FgPrefix, fg_color)
                                      \o SgrColor(BgPrefix, bg_color) \o <<tx.character>>,
                  fg_color |-> fg_color, bg_color |-> bg_color]
        ELSE LET fg_color == IF ColorChanged(fg, st.fg_color) THEN fg ELSE st.fg_color
                 bg_color == IF ColorChanged(bg, st.bg_color) THEN bg ELSE st.bg_color
             IN  [terminal_line |->
                      st.terminal_line
                      \o (IF ColorChanged(fg, st.fg_color) THEN SgrColor(FgPrefix, fg_color) ELSE <<>>)
                      \o (IF ColorChanged(bg, st.bg_color) THEN SgrColor(BgPrefix, bg_color) ELSE <<>>)
                      \o <<tx.character>>,
                  fg_color |-> fg_color, bg_color |-> bg_color]

\* the encoder's state after the first n cells of the row
RECURSIVE EncodeCells(_, _)
EncodeCells(line, n) ==
    IF n = 0
    THEN [terminal_line |-> <<>>,
          fg_color |-> ScreenColor(-1, Black), bg_color |-> ScreenColor(-2, Black)]
    ELSE EncodeCell(EncodeCells(line, n - 1), n, line[n])

line_to_terminal_line(line) == EncodeCells(line, Len(line)).terminal_line \o ResetCode

-----------------------------------------------------------------------------
(* First responder hand-over: responder.py, view.py:107-118,               *)
(* application.py:58-68, panel.py:236-246.                                 *)

NoResponder == "None"

\* a plain Responder, a plain View, and two widgets that override all three methods
Responders == {"responder", "view", "widgetA", "widgetB"}
Overriding == {"widgetA", "widgetB"}

\* `choice` is what an overriding subclass answers
accepts_first_responder(r, choice) ==
    IF r \in Overriding THEN choice ELSE r = "view"    \* responder.py:51, view.py:118
become_first_responder(r, choice) ==
    IF r \in Overriding THEN choice ELSE TRUE           \* responder.py:66
resign_first_responder(r, choice) ==
    IF r \in Overriding THEN choice ELSE TRUE           \* responder.py:81

Call(method, target, result) == [method |-> method, target |-> target, result |-> result]

\* The condition of application.py:64-66 and panel.py:242-244 with Python's
\* short-circuit evaluation: the calls made, in order, and whether all held.
HandOver(current, responder, rs, ac, bc) ==
    LET resigned == current = NoResponder \/ resign_first_responder(current, rs)
        accepted == resigned /\ accepts_first_responder(responder, ac)
        became   == accepted /\ become_first_responder(responder, bc)
    IN  [calls |->
             (IF current = NoResponder THEN <<>>
              ELSE <<Call("resign_first_responder", current,
                          resign_first_responder(current, rs))>>)
             \o (IF resigned
                 THEN <<Call("accepts_first_responder", responder,
                             accepts_first_responder(responder, ac))>>
                 ELSE <<>>)
             \o (IF accepted
                 THEN <<Call("become_first_responder", responder,
                             become_first_responder(responder, bc))>>
                 ELSE <<>>),
         ok |-> became]

\* an Application that records the candidate whatever the steps returned
Application_set_first_responder_unconditional(current, responder, rs, ac, bc) ==
    responder

\* Application.set_first_responder: the new value of _first_responder
Application_set_first_responder(current, responder, rs, ac, bc) ==
    IF HandOver(current, responder, rs, ac, bc).ok THEN responder ELSE current

\* Panel.set_first_responder: the new value of first_responder
Panel_set_first_responder(current, responder, rs, ac, bc) ==
    IF HandOver(current, responder, rs, ac, bc).ok THEN responder ELSE current

\* what the calls of one hand-over leave behind in the responders themselves
RECURSIVE AfterCalls(_, _)
AfterCalls(state, calls) ==
    IF calls = <<>> THEN state
    ELSE LET c == Head(calls)
             next == IF c.method = "resign_first_responder" /\ c.result
                     THEN [state EXCEPT ![c.target] = "resigned"]
                     ELSE IF c.method = "become_first_responder" /\ c.result
                     THEN [state EXCEPT ![c.target] = "first"]
                     ELSE state
         IN  AfterCalls(next, Tail(calls))

FrInit ==
    /\ fr_app = NoResponder
    /\ fr_panel = NoResponder
    /\ fr_calls = 0
    /\ fr_last = [owner |-> "none", responder |-> NoResponder, before |-> NoResponder,
                  calls |-> <<>>]
    /\ fr_state = [r \in Responders |-> "idle"]

AppSetFirstResponder ==
    /\ fr_calls < MaxCalls
    /\ \E responder \in Responders, rs \in BOOLEAN, ac \in BOOLEAN, bc \in BOOLEAN :
         LET h == HandOver(fr_app, responder, rs, ac, bc)
         IN  /\ fr_app' = Application_set_first_responder(fr_app, responder, rs, ac, bc)
             /\ fr_last' = [owner |-> "application", responder |-> responder,
                            before |-> fr_app, calls |-> h.calls]
             /\ fr_state' = AfterCalls(fr_state, h.calls)
    /\ fr_calls' = fr_calls + 1
    /\ UNCHANGED <<fr_panel, runVars, smVars, termVars, appVars, histVars, getchVars,
                   encodeVars, uiVars>>

PanelSetFirstResponder ==
    /\ fr_calls < MaxCalls
    /\ \E responder \in Responders, rs \in BOOLEAN, ac \in BOOLEAN, bc \in BOOLEAN :
         LET h == HandOver(fr_panel, responder, rs, ac, bc)
         IN  /\ fr_panel' = Panel_set_first_responder(fr_panel, responder, rs, ac, bc)
             /\ fr_last' = [owner |-> "panel", responder |-> responder,
                            before |-> fr_panel, calls |-> h.calls]
             /\ fr_state' = AfterCalls(fr_state, h.calls)
    /\ fr_calls' = fr_calls + 1
    /\ UNCHANGED <<fr_app, runVars, smVars, termVars, appVars, histVars, getchVars,
                   encodeVars, uiVars>>

-----------------------------------------------------------------------------
(* Events: screen.py KeyPressEvent, ResizeEvent.  `id` is the object's      *)
(* identity: the n-th event constructed in the run.                        *)

KeyPressEvent(id, ch) ==
    [type |-> "KeyPressEvent", id |-> id, key_code |-> ch.ch,
     has_ctrl_modifier |-> ch.ctrl, has_alt_modifier |-> ch.alt,
     has_shift_modifier |-> ch.shift, new_width |-> 0, new_height |-> 0]

ResizeEvent(id, nw, nh) ==
    [type |-> "ResizeEvent", id |-> id, key_code |-> <<>>,
     has_ctrl_modifier |-> FALSE, has_alt_modifier |-> FALSE,
     has_shift_modifier |-> FALSE, new_width |-> nw, new_height |-> nh]

NoEvent ==
    [type |-> "None", id |-> 0, key_code |-> <<>>,
     has_ctrl_modifier |-> FALSE, has_alt_modifier |-> FALSE,
     has_shift_modifier |-> FALSE, new_width |-> 0, new_height |-> 0]

\* '\x03' in place of '\x18'
CtrlCCode == <<3>>

\* '\x18', the key code line 319 compares with
ForceQuitCode == <<24>>

-----------------------------------------------------------------------------
(* The ScreenManager and the terminal as one record, so that the methods   *)
(* compose in program order.  `raised` is the exception in flight: once    *)
(* set, the statements after it do not run.                                *)

Screen ==
    [width |-> width, height |-> height,
     cursor_is_visible |-> cursor_is_visible, cursor_position |-> cursor_position,
     original_terminal_settings |-> original_terminal_settings,
     application_cursor_is_visible |-> application_cursor_is_visible,
     application_cursor_position |-> application_cursor_position,
     screen_contents |-> screen_contents,
     term_attrs |-> term_attrs, term_cursor |-> term_cursor, term_alt |-> term_alt,
     repaints |-> repaints, raised |-> "none"]

SetScreen(s) ==
    /\ width' = s.width
    /\ height' = s.height
    /\ cursor_is_visible' = s.cursor_is_visible
    /\ cursor_position' = s.cursor_position
    /\ original_terminal_settings' = s.original_terminal_settings
    /\ application_cursor_is_visible' = s.application_cursor_is_visible
    /\ application_cursor_position' = s.application_cursor_position
    /\ screen_contents' = s.screen_contents
    /\ term_attrs' = s.term_attrs
    /\ term_cursor' = s.term_cursor
    /\ term_alt' = s.term_alt
    /\ repaints' = s.repaints

ScreenIs(s) ==
    /\ width = s.width
    /\ height = s.height
    /\ cursor_is_visible = s.cursor_is_visible
    /\ cursor_position = s.cursor_position
    /\ original_terminal_settings = s.original_terminal_settings
    /\ application_cursor_is_visible = s.application_cursor_is_visible
    /\ application_cursor_position = s.application_cursor_position
    /\ screen_contents = s.screen_contents
    /\ term_attrs = s.term_attrs
    /\ term_cursor = s.term_cursor
    /\ term_alt = s.term_alt
    /\ repaints = s.repaints

Contents(w, h, of) == [cols |-> w, rows |-> h, of |-> of]

\* ScreenManager.__init__, screen.py:223-234 (width and height are not set there),
\* and the terminal as the shell left it
InitialScreen ==
    [width |-> 0, height |-> 0,
     cursor_is_visible |-> TRUE, cursor_position |-> <<0, 0>>,
     original_terminal_settings |-> "unset",
     application_cursor_is_visible |-> FALSE,
     application_cursor_position |-> <<0, 0>>,
     screen_contents |-> Contents(0, 0, "none"),
     term_attrs |-> "cooked", term_cursor |-> "shown", term_alt |-> FALSE,
     repaints |-> 0, raised |-> "none"]

Running(s) == s.raised = "none"

\* screen.py:562-582
show_cursor(s) ==
    IF ~Running(s) THEN s
    ELSE [s EXCEPT !.term_cursor = "shown", !.cursor_is_visible = TRUE]
hide_cursor(s) ==
    IF ~Running(s) THEN s
    ELSE [s EXCEPT !.term_cursor = "hidden", !.cursor_is_visible = FALSE]

\* screen.py:584-592
set_cursor_position(s, x, y) ==
    IF ~Running(s) THEN s ELSE [s EXCEPT !.cursor_position = <<x, y>>]

\* screen.py:367-381
start_alternate_screen(s) == IF ~Running(s) THEN s ELSE [s EXCEPT !.term_alt = TRUE]
close_alternate_screen(s) == IF ~Running(s) THEN s ELSE [s EXCEPT !.term_alt = FALSE]

\* screen.py:485-524.  write_cmd holds one positioned line per row of the
\* screen, so it is empty exactly when the screen has no rows.  `fault`: the
\* write of line 520 raises.
draw(s, of, fault) ==
    IF ~Running(s) THEN s
    ELSE IF s.height > 0
    THEN LET s1 == set_cursor_position(hide_cursor(s), 0, 0)
         IN  IF fault
             THEN [s1 EXCEPT !.raised = "OSError"]
             ELSE set_cursor_position(
                      [s1 EXCEPT !.repaints = @ + 1,
                                 !.screen_contents = Contents(s.width, s.height, of)],
                      0, 0)
    ELSE set_cursor_position(s, 0, 0)

\* screen.py:526-533
blank_screen(s, fault) == draw(s, "blank", fault)

\* screen.py:348-355
set_size(s, w, h, fault) ==
    IF ~Running(s) THEN s
    ELSE blank_screen([s EXCEPT !.width = w, !.height = h], fault)

\* application_draw that writes the frame twice
application_draw_twice(s, fault) ==
    LET s1 == draw(draw(s, "frame", fault), "frame", FALSE)
        s2 == set_cursor_position(s1, s.application_cursor_position[1],
                                      s.application_cursor_position[2])
    IN  IF s.application_cursor_is_visible THEN show_cursor(s2) ELSE s2

\* screen.py:654-673 (Screen.draw, screen.py:117-126, calls it)
application_draw(s, fault) ==
    LET s1 == draw(s, "frame", fault)
        s2 == set_cursor_position(s1, s.application_cursor_position[1],
                                      s.application_cursor_position[2])
    IN  IF s.application_cursor_is_visible THEN show_cursor(s2) ELSE s2

\* screen.py:627-634
application_set_cursor_position(s, x, y) ==
    [set_cursor_position(s, x, y) EXCEPT !.application_cursor_position = <<x, y>>]

\* screen.py:636-643
application_hide_cursor(s) ==
    [hide_cursor(s) EXCEPT !.application_cursor_is_visible = FALSE]

\* screen.py:645-652
application_show_cursor(s) ==
    [show_cursor(s) EXCEPT !.application_cursor_is_visible = TRUE]

\* screen.py:238-260.  `fault` names the call that raises, if any:
\* "size" (line 247), "attrs" (line 251), "write" (the blank of line 259).
setup(s, size, fault) ==
    IF fault = "size" THEN [s EXCEPT !.raised = "OSError"]
    ELSE LET s1 == [s EXCEPT !.width = size[1], !.height = size[2]]
         IN  IF fault = "attrs" THEN [s1 EXCEPT !.raised = "termios.error"]
             ELSE LET s2 == [s1 EXCEPT !.original_terminal_settings = s.term_attrs,
                                       !.term_attrs = "raw"]
                      s3 == [hide_cursor(s2) EXCEPT !.cursor_position = <<0, 0>>]
                  IN  blank_screen(start_alternate_screen(s3), fault = "write")

\* teardown that leaves the terminal in raw mode (no tcsetattr)
teardown_keeps_raw_mode(s, fault) ==
    show_cursor(close_alternate_screen(blank_screen(set_cursor_position(s, 0, 0), fault)))

\* screen.py:262-278
teardown(s, fault) ==
    LET s1 == blank_screen(set_cursor_position(s, 0, 0), fault)
        s2 == show_cursor(close_alternate_screen(s1))
    IN  IF ~Running(s2) THEN s2
        ELSE [s2 EXCEPT !.term_attrs = s.original_terminal_settings]

-----------------------------------------------------------------------------
(* The hosted computation: the generator run_app resumes.                  *)
(* "Application" is Application.run_with_screen (application.py:157-222);  *)
(* "Generator" is any other generator given to run_app, such as the demo   *)
(* App.run_with_screen (screen.py:837-873): it draws any number of times   *)
(* per frame and may return.                                               *)

NoView == <<>>
Exceptions == {"NameError", "SystemExit"}   \* raised by hosted code (cf. screen.py:846-850)
TermSizes == {<<0, 0>>, <<2, 1>>}
StdinReads == {<<97>>, <<24>>, <<27, 91, 65>>, <<195, 169>>}   \* a, Ctrl+X, Up, e-acute in UTF-8

\* View.set_size (view.py:218-226) with the default constrain_size
ViewSize(w, h) == <<Max(w, 0), Max(h, 0)>>

RECURSIVE ApplicationDraws(_, _, _)
ApplicationDraws(s, n, fault) ==
    IF n = 0 THEN s ELSE ApplicationDraws(application_draw(s, fault), n - 1, FALSE)

FrameResult(s, mv, end) ==
    [screen |-> s, main_view |-> mv, end |-> IF Running(s) THEN end ELSE s.raised]

\* One resumption of Application.run_with_screen with event ev (NoEvent: the
\* start, lines 159-160), up to its next yield.  `view`: on_run sets a main
\* view; `end`: "yield", or the exception a hook (on_run, key_press,
\* size_did_change, a view's draw) raises; `fault`: the write of the draw
\* raises.  The debug branch (lines 185-206) draws once as well.
Application_run_with_screen(s, mv, ev, view, end, fault) ==
    IF end # "yield" THEN FrameResult(s, mv, end)
    ELSE LET mv1 == IF ev.type = "None"
                    THEN IF view THEN ViewSize(s.width, s.height) ELSE NoView
                    ELSE IF ev.type = "ResizeEvent" /\ mv # NoView
                    THEN ViewSize(s.width, s.height)
                    ELSE mv
         IN  FrameResult(IF mv1 # NoView THEN application_draw(s, fault) ELSE s, mv1, "yield")

\* One resumption of any other generator: n draws, then it yields, returns or raises.
Generator_resume(s, n, end, fault) ==
    FrameResult(ApplicationDraws(s, n, fault), NoView, end)

\* application_coroutine.send(ev), lines 316, 324 and 327, from screen state s,
\* and the except clauses of lines 328-331
Send(s, ev) ==
    \E view \in BOOLEAN, n \in 0..MaxDraws, end \in {"yield", "return"} \cup Exceptions,
       fault \in BOOLEAN :
        /\ hosted = "Application" => n = 0 /\ end # "return"
        /\ hosted = "Generator" => ~view
        /\ LET r == IF hosted = "Application"
                    THEN Application_run_with_screen(s, main_view, ev, view, end, fault)
                    ELSE Generator_resume(s, n, end, fault)
           IN  /\ SetScreen(r.screen)
               /\ main_view' = r.main_view
               /\ app_end' = r.end
               /\ IF r.end = "yield"
                  THEN pc' = "wait" /\ err' = err
                  ELSE pc' = "teardown" /\ err' = (IF r.end = "return" THEN "None" ELSE r.end)

Outcome(status, exc, via) == [status |-> status, exc |-> exc, via |-> via]

\* an exception leaves run_app from outside the try statement
Propagate(exc) ==
    /\ pc' = "done"
    /\ outcome' = Outcome("raised", exc, "propagated")

-----------------------------------------------------------------------------
(* ScreenManager.run_app, screen.py:280-346.                               *)

RunInit ==
    /\ pc = "idle"
    /\ outcome = Outcome("running", "none", "none")
    /\ should_exit = FALSE
    /\ err = "unbound"
    /\ msg = NoEvent
    /\ main_queue = <<>>
    /\ kb_monitor = "none"
    /\ sigwinch = "old"
    /\ sig_pending = FALSE
    /\ ScreenIs(InitialScreen)
    \* Application.__init__, application.py:47-56
    /\ main_view = NoView
    /\ teardown_calls = 0 /\ teardown_done = FALSE
    /\ handled = "none" /\ app_end = "none" /\ delivered = <<>>
    /\ n_events = 0 /\ n_reads = 0 /\ n_resizes = 0

\* line 289
Setup ==
    /\ pc = "idle"
    /\ \E fault \in {"none", "size", "attrs", "write"} :
         LET s == setup(Screen, term_size, fault)
         IN  /\ SetScreen(s)
             /\ IF Running(s)
                THEN pc' = "spawn" /\ UNCHANGED outcome
                ELSE Propagate(s.raised)
    /\ UNCHANGED <<offRun, should_exit, err, msg, main_queue, kb_monitor, sigwinch, sig_pending,
                   term_size, appVars, teardown_calls, teardown_done, handled, app_end, delivered,
                   n_events, n_reads, n_resizes>>

\* lines 291-309: the queue, the keyboard worker, the resize handler
Spawn ==
    /\ pc = "spawn"
    /\ main_queue' = <<>>
    /\ kb_monitor' = "running"
    /\ sigwinch' = "resize_handler"
    /\ pc' = "created"
    /\ UNCHANGED <<offRun, outcome, should_exit, err, msg, sig_pending, smVars, termVars, appVars,
                   histVars>>

\* lines 311-315: the generator object is made, its body has not started
EnterTry ==
    /\ pc = "created"
    /\ should_exit' = FALSE
    /\ pc' = "start"
    /\ UNCHANGED <<offRun, outcome, err, msg, main_queue, kb_monitor, sigwinch, sig_pending, smVars,
                   termVars, appVars, histVars>>

\* line 316
Start ==
    /\ pc = "start"
    /\ Send(Screen, NoEvent)
    /\ handled' = "start"
    /\ UNCHANGED <<offRun, outcome, should_exit, msg, main_queue, kb_monitor, sigwinch, sig_pending,
                   term_size, hosted, teardown_calls, teardown_done, delivered, n_events,
                   n_reads, n_resizes>>

\* get() that leaves the event in the queue
Get_without_removing ==
    /\ pc = "wait"
    /\ main_queue # <<>>
    /\ msg' = Head(main_queue)
    /\ repaints' = 0
    /\ pc' = "dispatch"
    /\ UNCHANGED <<offRun, outcome, should_exit, err, main_queue, kb_monitor, sigwinch,
                   sig_pending, smVars, termVars, appVars, teardown_calls, teardown_done,
                   handled, app_end, delivered, n_events, n_reads, n_resizes>>

\* line 318: blocks while the queue is empty
Get ==
    /\ pc = "wait"
    /\ main_queue # <<>>
    /\ msg' = Head(main_queue)
    /\ main_queue' = Tail(main_queue)
    /\ repaints' = 0
    /\ pc' = "dispatch"
    /\ UNCHANGED <<offRun, outcome, should_exit, err, kb_monitor, sigwinch, sig_pending, smVars,
                   termVars, appVars, teardown_calls, teardown_done, handled, app_end, delivered,
                   n_events, n_reads, n_resizes>>

\* lines 319-321
ForceQuit ==
    /\ pc = "dispatch"
    /\ msg.type = "KeyPressEvent" /\ msg.key_code = ForceQuitCode
    /\ should_exit' = TRUE
    /\ pc' = "teardown"
    /\ UNCHANGED <<offRun, outcome, err, msg, main_queue, kb_monitor, sigwinch, sig_pending, smVars,
                   termVars, appVars, histVars>>

\* lines 323-324
SendKeyPress ==
    /\ pc = "dispatch"
    /\ msg.type = "KeyPressEvent" /\ msg.key_code # ForceQuitCode
    /\ delivered' = Append(delivered, msg)
    /\ handled' = "KeyPressEvent"
    /\ Send(Screen, msg)
    /\ UNCHANGED <<offRun, outcome, should_exit, msg, main_queue, kb_monitor, sigwinch, sig_pending,
                   term_size, hosted, teardown_calls, teardown_done, n_events, n_reads,
                   n_resizes>>

\* lines 325-327
SendResize ==
    /\ pc = "dispatch"
    /\ msg.type = "ResizeEvent"
    /\ handled' = "ResizeEvent"
    /\ \E fault \in BOOLEAN :
         LET s == set_size(Screen, msg.new_width, msg.new_height, fault)
         IN  IF Running(s)
             THEN /\ delivered' = Append(delivered, msg)
                  /\ Send(s, msg)
             ELSE /\ SetScreen(s)
                  /\ err' = s.raised
                  /\ pc' = "teardown"
                  /\ UNCHANGED <<delivered, main_view, app_end>>
    /\ UNCHANGED <<offRun, outcome, should_exit, msg, main_queue, kb_monitor, sigwinch, sig_pending,
                   term_size, hosted, teardown_calls, teardown_done, n_events, n_reads,
                   n_resizes>>

\* line 333
Teardown ==
    /\ pc = "teardown"
    /\ teardown_calls' = teardown_calls + 1
    /\ \E fault \in BOOLEAN :
         LET s == teardown(Screen, fault)
         IN  /\ SetScreen(s)
             /\ teardown_done' = Running(s)
             /\ IF Running(s)
                THEN pc' = "cleanup" /\ UNCHANGED outcome
                ELSE Propagate(s.raised)
    /\ UNCHANGED <<offRun, should_exit, err, msg, main_queue, kb_monitor, sigwinch, sig_pending,
                   term_size, appVars, handled, app_end, delivered, n_events, n_reads, n_resizes>>

\* the end of run_app without the re-raise of lines 345-346
Finish_without_reraise ==
    /\ pc = "cleanup"
    /\ kb_monitor' = "terminated"
    /\ sigwinch' = "old"
    /\ sig_pending' = FALSE
    /\ pc' = "done"
    /\ outcome' = IF should_exit THEN Outcome("raised", "SystemExit", "line 343")
                  ELSE Outcome("returned", "none", "end")
    /\ UNCHANGED <<offRun, should_exit, err, msg, main_queue, smVars, termVars, appVars,
                   histVars>>

\* lines 334-346
Finish ==
    /\ pc = "cleanup"
    /\ kb_monitor' = "terminated"
    /\ sigwinch' = "old"
    /\ sig_pending' = FALSE
    /\ pc' = "done"
    /\ outcome' = IF should_exit THEN Outcome("raised", "SystemExit", "line 343")
                  ELSE IF err = "unbound" THEN Outcome("raised", "UnboundLocalError", "line 345")
                  ELSE IF err # "None" THEN Outcome("raised", err, "line 346")
                  ELSE Outcome("returned", "none", "end")
    /\ UNCHANGED <<offRun, should_exit, err, msg, main_queue, smVars, termVars, appVars, histVars>>

-----------------------------------------------------------------------------
(* The keyboard worker (a separate process), the resize handler (on the    *)
(* main thread, between two of its steps) and the terminal's user.         *)

\* lines 296-298, one iteration on the bytes the read returned: an exception
\* of getch ends the worker process
KeypressHandlerOn(bytes) ==
    /\ kb_monitor = "running"
    /\ LET ch == getch(bytes)
       IN  IF ch.exc = "none"
           THEN /\ main_queue' = Append(main_queue, KeyPressEvent(n_events + 1, ch))
                /\ n_events' = n_events + 1
                /\ UNCHANGED kb_monitor
           ELSE /\ kb_monitor' = "crashed"
                /\ UNCHANGED <<main_queue, n_events>>
    /\ n_reads' = n_reads + 1

KeypressHandler ==
    /\ n_reads < MaxReads
    /\ \E bytes \in StdinReads : KeypressHandlerOn(bytes)
    /\ UNCHANGED <<offRun, pc, outcome, should_exit, err, msg, sigwinch, sig_pending, smVars,
                   termVars, appVars, teardown_calls, teardown_done, repaints, handled, app_end,
                   delivered, n_resizes>>

\* the user resizes the terminal; the kernel raises SIGWINCH, which the old
\* disposition ignores
TerminalResized ==
    /\ pc \notin {"idle", "done"}
    /\ n_resizes < MaxResizes
    /\ \E size \in TermSizes \ {term_size} : term_size' = size
    /\ sig_pending' = (sig_pending \/ sigwinch = "resize_handler")
    /\ n_resizes' = n_resizes + 1
    /\ UNCHANGED <<offRun, pc, outcome, should_exit, err, msg, main_queue, kb_monitor, sigwinch,
                   smVars, term_attrs, term_cursor, term_alt, appVars, teardown_calls,
                   teardown_done, repaints, handled, app_end, delivered, n_events, n_reads>>

\* The cursor positions the hosted computation asks for (screen.py:854)
CursorPositions == {<<0, 0>>, <<5, 10>>}

\* A call of the Screen (screen.py:114-161) that the hosted computation makes
\* in a frame before it yields; the frame is the one that ended last
ScreenCall ==
    /\ pc = "wait"
    /\ \E call \in {"draw", "show_cursor", "hide_cursor", "set_cursor_position"},
          position \in CursorPositions :
         /\ call = "draw" => repaints < MaxDraws
         /\ call # "set_cursor_position" => position = <<0, 0>>
         /\ SetScreen(CASE call = "draw" -> application_draw(Screen, FALSE)
                        [] call = "show_cursor" -> application_show_cursor(Screen)
                        [] call = "hide_cursor" -> application_hide_cursor(Screen)
                        [] OTHER -> application_set_cursor_position(Screen, position[1],
                                                                    position[2]))
    /\ UNCHANGED <<offRun, runVars, term_size, appVars, teardown_calls, teardown_done, handled,
                   app_end, delivered, n_events, n_reads, n_resizes>>

InTry == pc \in {"start", "wait", "dispatch"}

\* a resize handler that also stores the new size in the ScreenManager
ResizeHandler_sets_size ==
    /\ sigwinch = "resize_handler" /\ sig_pending
    /\ pc \in {"created", "start", "wait", "dispatch", "teardown", "cleanup"}
    /\ sig_pending' = FALSE
    /\ main_queue' = Append(main_queue, ResizeEvent(n_events + 1, term_size[1], term_size[2]))
    /\ n_events' = n_events + 1
    /\ width' = term_size[1]
    /\ height' = term_size[2]
    /\ UNCHANGED <<offRun, pc, outcome, err, should_exit, msg, kb_monitor, sigwinch,
                   cursor_is_visible, cursor_position, original_terminal_settings,
                   application_cursor_is_visible, application_cursor_position,
                   screen_contents, termVars, appVars, teardown_calls, teardown_done,
                   repaints, handled, app_end, delivered, n_reads, n_resizes>>

\* lines 304-307, run by the main thread wherever it is.  An exception of
\* os.get_terminal_size is raised at that point of run_app.
ResizeHandler ==
    /\ sigwinch = "resize_handler" /\ sig_pending
    /\ pc \in {"created", "start", "wait", "dispatch", "teardown", "cleanup"}
    /\ sig_pending' = FALSE
    /\ \E fault \in BOOLEAN :
         IF ~fault
         THEN /\ main_queue' = Append(main_queue,
                                      ResizeEvent(n_events + 1, term_size[1], term_size[2]))
              /\ n_events' = n_events + 1
              /\ UNCHANGED <<pc, outcome, err>>
         ELSE /\ UNCHANGED <<main_queue, n_events>>
              /\ IF InTry
                 THEN pc' = "teardown" /\ err' = "OSError" /\ UNCHANGED outcome
                 ELSE Propagate("OSError") /\ UNCHANGED err
    /\ UNCHANGED <<offRun, should_exit, msg, kb_monitor, sigwinch, smVars, termVars, appVars,
                   teardown_calls, teardown_done, repaints, handled, app_end, delivered, n_reads,
                   n_resizes>>

-----------------------------------------------------------------------------
(* Key press dispatch: event.py, responder.py:83-123, view.py:120-130,     *)
(* application.py:70-79 and 213-222, panel.py:248-260.  A responder is     *)
(* <<class, index>>; the views of a chain are numbered from the first      *)
(* responder up, each one's superview being the next.  A view class that   *)
(* overrides key_press and handles the key is a view that `consumes`.      *)

\* event.py:23-28
Event(ch, ctrl, alt, shift) ==
    [key_code |-> ch, has_ctrl_modifier |-> ctrl, has_alt_modifier |-> alt,
     has_shift_modifier |-> shift]

NoKey == Event(<<>>, FALSE, FALSE, FALSE)
KeyEvents == {Event(<<97>>, FALSE, FALSE, FALSE), Event(<<85, 112>>, TRUE, FALSE, FALSE)}

TheApplication == <<"Application", 0>>
ThePanel == <<"Panel", 0>>
Nobody == <<"None", 0>>
ViewAt(i) == <<"View", i>>

Sent(method, target, ev) == [method |-> method, target |-> target, event |-> ev]

\* one call made: what it did, and the exception it raised ("none": it returned)
Did(calls, raised) == [calls |-> calls, raised |-> raised]

\* statement a, then statement b unless a raised
Then(a, b) == IF a.raised # "none" THEN a ELSE Did(a.calls \o b.calls, b.raised)

\* try: a  except NoResponderException: b
TryExcept(a, b) ==
    IF a.raised = "NoResponderException" THEN Then(Did(a.calls, "none"), b) ELSE a

\* responder.py:96-108
Responder_no_responder(self, ev) ==
    Did(<<Sent("no_responder", self, ev)>>, "NoResponderException")

\* application.py:70-79
Application_no_responder(ev) == Did(<<Sent("no_responder", TheApplication, ev)>>, "none")

\* Panel defines no no_responder of its own: Responder's runs
Panel_no_responder(ev) == Responder_no_responder(ThePanel, ev)

\* Responder.key_press on the Application, whose next_responder is Responder's (None)
Application_key_press(ev) ==
    Then(Did(<<Sent("key_press", TheApplication, ev)>>, "none"), Application_no_responder(ev))

\* a next_responder that ignores the superview
View_next_responder_skips_superview(chain, linked, i) ==
    IF linked THEN TheApplication ELSE Nobody

\* view.py:120-130
View_next_responder(chain, linked, i) ==
    IF i < Len(chain) THEN ViewAt(i + 1)
    ELSE IF linked THEN TheApplication ELSE Nobody

\* Responder.key_press (responder.py:110-123) on the i-th view of the chain
RECURSIVE View_key_press(_, _, _, _)
View_key_press(chain, linked, i, ev) ==
    LET called == Did(<<Sent("key_press", ViewAt(i), ev)>>, "none")
        nr == View_next_responder(chain, linked, i)
    IN  IF chain[i].consumes THEN called
        ELSE IF nr = Nobody THEN Then(called, Responder_no_responder(ViewAt(i), ev))
        ELSE IF nr = TheApplication THEN Then(called, Application_key_press(ev))
        ELSE Then(called, View_key_press(chain, linked, nr[2], ev))

\* application.py:213-222, the KeyPressEvent branch of run_with_screen
Application_dispatch(chain, linked, ev) ==
    IF chain # <<>>
    THEN TryExcept(View_key_press(chain, linked, 1, ev), Application_key_press(ev))
    ELSE Application_key_press(ev)

\* a send_event that gives the first responder the event twice
Panel_send_event_twice(chain, linked, ev) ==
    Then(Did(<<Sent("send_event", ThePanel, ev)>>, "none"),
         IF chain # <<>>
         THEN TryExcept(Then(View_key_press(chain, linked, 1, ev),
                             View_key_press(chain, linked, 1, ev)),
                        Panel_no_responder(ev))
         ELSE Panel_no_responder(ev))

\* panel.py:248-260
Panel_send_event(chain, linked, ev) ==
    Then(Did(<<Sent("send_event", ThePanel, ev)>>, "none"),
         IF chain # <<>>
         THEN TryExcept(View_key_press(chain, linked, 1, ev), Panel_no_responder(ev))
         ELSE Panel_no_responder(ev))

Dispatched(r, ev, at) ==
    /\ d_pc = "ready"
    /\ d_ev' = ev
    /\ d_calls' = r.calls
    /\ d_raised' = r.raised
    /\ d_pc' = at
    /\ UNCHANGED <<d_chain, d_linked, d_key_panel, runVars, smVars, termVars, appVars,
                   histVars, getchVars, encodeVars, frVars, layoutVars, constrainVars>>

\* the Application of src/ is resumed with a KeyPressEvent; its first
\* responder is the first view of the chain
DispatchKeyPress ==
    \E ev \in KeyEvents :
        Dispatched(Application_dispatch(d_chain, d_linked, ev), ev, "application")

\* a caller sends an event to a panel whose first responder is the first
\* view of the chain
SendEvent ==
    \E ev \in KeyEvents :
        Dispatched(Panel_send_event(d_chain, d_linked, ev), ev, "panel")

\* An Application that has panels, resumed with a KeyPressEvent: the methods
\* that set the key panel are not among the sources, so the branch follows
\* the specification: the key panel's send_event if there is a key panel,
\* else the Application's own key_press.
Application_key_press_event(chain, linked, key, ev) ==
    IF key THEN Panel_send_event(chain, linked, ev) ELSE Application_key_press(ev)

ResumeKeyPress ==
    \E ev \in KeyEvents :
        Dispatched(Application_key_press_event(d_chain, d_linked, d_key_panel, ev), ev, "resumed")

-----------------------------------------------------------------------------
(* Panels: panel.py.  The objects live in a heap [panels, views]; a method *)
(* takes the heap and returns it changed.  A Size is <<width, height>>, a  *)
(* Point <<x, y>>.                                                         *)

NoPanel == "None"
NilView == "None"         \* no view: content_view, superview or subview is None
NoTitle == <<-1>>          \* title = None; a title is a sequence of code points

Op(name, target, arg) == [op |-> name, target |-> target, arg |-> arg]

Heap == [panels |-> panels, views |-> views]

SetHeap(h) ==
    /\ panels' = h.panels
    /\ views' = h.views

\* Panel.__init__, panel.py:63-77
Panel ==
    [application |-> FALSE, is_key_panel |-> FALSE, is_main_panel |-> FALSE,
     location |-> <<0, 0>>, size |-> <<0, 0>>, title |-> NoTitle, has_border |-> TRUE,
     background_color |-> Black, content_view |-> NilView]

\* panel.py:79-85
Panel_set_application(h, p) == [h EXCEPT !.panels[p].application = TRUE]

\* panel.py:108-117 and 119-127
become_key(h, p) == [h EXCEPT !.panels[p].is_key_panel = TRUE]
resign_key(h, p) == h

\* panel.py:150-159 and 161-169
become_main(h, p) == [h EXCEPT !.panels[p].is_main_panel = TRUE]
resign_main(h, p) == h

\* panel.py:171-177
Panel_set_location(h, p, loc) == [h EXCEPT !.panels[p].location = loc]

-----------------------------------------------------------------------------
(* Views: view.py, fillview.py, emptyview.py, splitview.py.  Lines are     *)
(* sequences of rows, a row a sequence of Tixels.                          *)

\* Python n * [x]: the empty list when n <= 0
Times(n, x) == [i \in 1..n |-> x]

\* Python s[:n], n of either sign
UpTo(s, n) == IF n >= 0 THEN Take(s, n) ELSE Take(s, Max(Len(s) + n, 0))

\* Python int(0.5 * n): truncation toward zero
Half(n) == IF n >= 0 THEN n \div 2 ELSE -((-n) \div 2)

Space == Tixel(32, White, Black)

\* View.__init__ (view.py:99-105) and the fields SplitView.__init__ adds
\* (splitview.py:40-48); ratio stays at its initial 0.5
View(class, first, second) ==
    [class |-> class, application |-> FALSE, superview |-> NilView,
     size |-> <<0, 0>>, origin |-> <<0, 0>>,
     is_vertical |-> TRUE, has_divider |-> TRUE,
     first_subview |-> first, second_subview |-> second]

\* view.py:35-56
offset_to_origin(lines, point) ==
    LET hoffset_lines ==
            IF point[1] <= 0
            THEN [i \in 1..Len(lines) |-> Times(-point[1], Space) \o lines[i]]
            ELSE [i \in 1..Len(lines) |-> Drop(lines[i], point[1])]
    IN  IF point[2] <= 0
        THEN Times(-point[2], <<>>) \o hoffset_lines
        ELSE Drop(hoffset_lines, point[2])

fit_to_width_without_padding(line, wd) == UpTo(line, wd)

\* view.py:59-65
fit_to_width(line, wd) ==
    IF Len(line) < wd
    THEN line \o Times(wd - Len(line), Space)
    ELSE UpTo(line, wd)

\* view.py:68-74
fit_to_height(lines, ht) ==
    IF Len(lines) < ht
    THEN lines \o Times(ht - Len(lines), <<>>)
    ELSE UpTo(lines, ht)

\* view.py:77-90
fit_to_size(lines, size) ==
    LET vfit_lines == fit_to_height(lines, size[2])
    IN  [i \in 1..Len(vfit_lines) |-> fit_to_width(vfit_lines[i], size[1])]

\* view.py:93-95
put_in_bounds(lines, origin, size) == fit_to_size(offset_to_origin(lines, origin), size)

\* view.py:250-256
bound_lines(h, v, lines) == put_in_bounds(lines, h.views[v].origin, h.views[v].size)

\* view.py:228-237; SplitView, FillView and EmptyView inherit it
constrain_size(h, v, new_size) == new_size

\* view.py:197-205
constrain_origin(h, v, new_origin) == <<0, 0>>

\* view.py:188-195
set_origin(h, v, new_origin) ==
    [h EXCEPT !.views[v].origin = constrain_origin(h, v, new_origin)]

RECURSIVE View_set_size(_, _, _)
RECURSIVE recalculate_sizes(_, _)

\* view.py:239-248, splitview.py:64-71
size_did_change(h, v) ==
    IF h.views[v].class = "SplitView" THEN recalculate_sizes(h, v) ELSE h

View_set_size_without_clamp(h, v, new_size) ==
    size_did_change([h EXCEPT !.views[v].size = constrain_size(h, v, new_size)], v)

\* view.py:218-226
View_set_size(h, v, new_size) ==
    LET c == constrain_size(h, v, new_size)
    IN  size_did_change([h EXCEPT !.views[v].size = <<Max(c[1], 0), Max(c[2], 0)>>], v)

\* splitview.py:112-139
recalculate_sizes(h, v) ==
    LET self == h.views[v]
    IN  IF self.is_vertical
        THEN LET usable_height == IF self.has_divider THEN self.size[2] - 1 ELSE self.size[2]
                 top_height == Half(usable_height)
                 bottom_height == usable_height - top_height
             IN  View_set_size(View_set_size(h, self.first_subview, <<self.size[1], top_height>>),
                               self.second_subview, <<self.size[1], bottom_height>>)
        ELSE LET usable_width == IF self.has_divider THEN self.size[1] - 1 ELSE self.size[1]
                 left_width == Half(usable_width)
                 right_width == usable_width - left_width
             IN  View_set_size(View_set_size(h, self.first_subview, <<left_width, self.size[2]>>),
                               self.second_subview, <<right_width, self.size[2]>>)

\* view.py:177-186, splitview.py:60-62, clipview.py:37-39; a ClipView's
\* document_view is its first_subview here
subviews(h, v) ==
    CASE h.views[v].class = "SplitView" ->
             <<h.views[v].first_subview, h.views[v].second_subview>>
      [] h.views[v].class = "ClipView" -> <<h.views[v].first_subview>>
      [] OTHER -> <<>>

\* view.py:132-141; the application is the one Application of the run
RECURSIVE View_set_application(_, _)
RECURSIVE set_application_of_each(_, _)
set_application_of_each(h, vs) ==
    IF vs = <<>> THEN h
    ELSE set_application_of_each(View_set_application(h, Head(vs)), Tail(vs))

View_set_application(h, v) ==
    set_application_of_each([h EXCEPT !.views[v].application = TRUE], subviews(h, v))

\* view.py:143-153
set_superview(h, v, superview) ==
    LET moved == [h EXCEPT !.views[v].superview = superview]
    IN  IF moved.views[superview].application
        THEN View_set_application(moved, v)
        ELSE moved

\* view.py:120-130
next_responder(h, v) ==
    IF h.views[v].superview # NilView THEN h.views[v].superview
    ELSE IF h.views[v].application THEN "Application"
    ELSE "None"

\* splitview.py:50-53 and 55-58
set_first_subview(h, v, view) ==
    set_superview([h EXCEPT !.views[v].first_subview = view], view, v)
set_second_subview(h, v, view) ==
    set_superview([h EXCEPT !.views[v].second_subview = view], view, v)

\* clipview.py:28-35
set_document_view(h, v, view) ==
    set_superview([h EXCEPT !.views[v].first_subview = view], view, v)

\* splitview.py:73-82 and 84-93
set_is_vertical(h, v, yn) == recalculate_sizes([h EXCEPT !.views[v].is_vertical = yn], v)
set_has_divider(h, v, yn) == recalculate_sizes([h EXCEPT !.views[v].has_divider = yn], v)

\* The result of a draw: the lines it returns, or the exception it raises
Drawn(lines) == [raised |-> "none", lines |-> lines]
Raised(exception) == [raised |-> exception, lines |-> <<>>]

\* view.py:258-267
View_draw_base(h, v) == Drawn(fit_to_size(<<>>, h.views[v].size))

\* fillview.py:33-35; fill_character stays at its initial ' ' (fillview.py:22)
FillView_draw(h, v) ==
    Drawn(Times(h.views[v].size[2], Times(h.views[v].size[1], Space)))

\* emptyview.py:16-29
EmptyView_draw(h, v) ==
    LET size == h.views[v].size
        top_height == Half(size[2] - 1)
        bottom_height == size[2] - 1 - top_height
        left_width == Half(size[1] - 5)
        right_width == size[1] - 5 - left_width
        label == [i \in 1..5 |-> Tixel(<<101, 109, 112, 116, 121>>[i], White, Black)]
        lines == Times(top_height, Times(size[1], Space))
                 \o <<Times(left_width, Space) \o label \o Times(right_width, Space)>>
                 \o Times(bottom_height, Times(size[1], Space))
    IN  Drawn(bound_lines(h, v, lines))

RECURSIVE View_draw(_, _)

\* splitview.py:165-194; the rows of the two subviews are indexed up to the
\* SplitView's own height when it is not vertical
SplitView_draw(h, v) ==
    LET self == h.views[v]
        first == View_draw(h, self.first_subview)
        second == View_draw(h, self.second_subview)
        divider == IF self.has_divider THEN <<Tixel(9474, White, Black)>> ELSE <<>>
    IN  IF first.raised # "none" THEN first
        ELSE IF second.raised # "none" THEN second
        ELSE IF self.is_vertical
        THEN Drawn(bound_lines(h, v,
                 first.lines
                 \o (IF self.has_divider
                     THEN <<Times(self.size[1], Tixel(9472, White, Black))>> ELSE <<>>)
                 \o second.lines))
        ELSE IF \E y \in 1..self.size[2] : y > Len(first.lines) \/ y > Len(second.lines)
        THEN Raised("IndexError")
        ELSE Drawn(bound_lines(h, v,
                 [y \in 1..self.size[2] |-> first.lines[y] \o divider \o second.lines[y]]))

View_draw(h, v) ==
    CASE h.views[v].class = "FillView" -> FillView_draw(h, v)
      [] h.views[v].class = "EmptyView" -> EmptyView_draw(h, v)
      [] h.views[v].class = "SplitView" -> SplitView_draw(h, v)
      [] OTHER -> View_draw_base(h, v)

-----------------------------------------------------------------------------
(* Panel geometry: panel.py.                                               *)

resize_content_view_with_title_row_apart(h, p) ==
    LET self == h.panels[p]
        titled == self.title # NoTitle
        wd == IF self.has_border THEN self.size[1] - 2 ELSE self.size[1]
        ht == (IF titled THEN self.size[2] - 1 ELSE self.size[2])
              - (IF self.has_border THEN 2 ELSE 0)
    IN  IF self.content_view # NilView
        THEN View_set_size(h, self.content_view, <<wd, ht>>)
        ELSE h

\* panel.py:204-225
resize_content_view(h, p) ==
    LET self == h.panels[p]
        titled == self.title # NoTitle
        wd == IF self.has_border THEN self.size[1] - 2 ELSE self.size[1]
        ht == (IF titled THEN self.size[2] - 1 ELSE self.size[2])
              - (IF self.has_border THEN (IF titled THEN 1 ELSE 2) ELSE 0)
    IN  IF self.content_view # NilView
        THEN View_set_size(h, self.content_view, <<wd, ht>>)
        ELSE h

Panel_set_size_keeps_size(h, p, size) == resize_content_view(h, p)

\* panel.py:179-186
Panel_set_size(h, p, size) == resize_content_view([h EXCEPT !.panels[p].size = size], p)

\* panel.py:188-194
Panel_set_title(h, p, title) == [h EXCEPT !.panels[p].title = title]

Panel_set_content_view_without_resize(h, p, view) ==
    [h EXCEPT !.panels[p].content_view = view]

\* panel.py:227-234
Panel_set_content_view(h, p, view) ==
    resize_content_view([h EXCEPT !.panels[p].content_view = view], p)

Grey == <<127, 127, 127>>   \* color.py:38

\* tixel.py:65-72
tixels(line, fg, bg) == [i \in 1..Len(line) |-> Tixel(line[i], fg, bg)]

\* panel.py:266-281: the title row, when the panel is titled
title_lines(self) ==
    LET wd == self.size[1]
        shortened == UpTo(self.title, wd - 5) \o <<46, 46, 46>>
        title_content ==
            IF wd >= 2 + Len(self.title) THEN self.title
            ELSE IF wd < 2 + Len(shortened) THEN <<>>
            ELSE shortened
        rpad == wd - 1 - Len(title_content)
    IN  IF self.title = NoTitle THEN <<>>
        ELSE IF wd <= 2 THEN <<tixels(Times(wd, 32), White, Grey)>>
        ELSE <<tixels(<<32>> \o title_content \o Times(rpad, 32), White, Grey)>>

\* panel.py:196-202
Panel_set_background_color(h, p, color) == [h EXCEPT !.panels[p].background_color = color]

\* panel.py:262-291
Panel_draw(h, p) ==
    LET self == h.panels[p]
        content == View_draw(h, self.content_view)
    IN  IF self.content_view = NilView
        THEN Drawn(title_lines(self)
                   \o Times(self.size[2],
                            Times(self.size[1],
                                  Tixel(32, self.background_color, self.background_color))))
        ELSE IF content.raised # "none" THEN content
        ELSE Drawn(title_lines(self) \o content.lines)

-----------------------------------------------------------------------------
(* The Application's panels.  application.py declares main_panel (line 52) *)
(* and test.py:158-203 calls set_main_panel, set_key_panel and add_panel,  *)
(* but the methods themselves are not among the sources: they follow the   *)
(* specification (the resign/become handshake, the main panel filling the  *)
(* terminal, Resize reaching the main panel only).                         *)

\* The panel is given the Application, and so is the tree of its content view
wire_panel(h, p) ==
    LET wired == Panel_set_application(h, p)
    IN  IF wired.panels[p].content_view # NilView
        THEN View_set_application(wired, wired.panels[p].content_view)
        ELSE wired

Application_set_key_panel(h, old, p) ==
    become_key(wire_panel(IF old # NoPanel THEN resign_key(h, old) ELSE h, p), p)

Application_set_main_panel(h, old, p, size) ==
    Panel_set_size(
        become_main(wire_panel(IF old # NoPanel THEN resign_main(h, old) ELSE h, p), p),
        p, size)

Application_add_panel(h, p) == wire_panel(h, p)

\* application.py:81-91, before the run: no screen, so the view keeps its size
Application_set_main_view(h, view) == View_set_application(h, view)

Application_resize(h, main, size) ==
    IF main # NoPanel THEN Panel_set_size(h, main, size) ELSE h

\* A cell of the frame buffer that no panel has painted
NoTixel == Tixel(-1, NoColor, NoColor)

\* The grid `lines` written over the buffer with its first cell at `location`;
\* rows and columns that fall outside the buffer are dropped
overwrite(buffer, lines, location) ==
    [y \in 1..Len(buffer) |->
        [x \in 1..Len(buffer[y]) |->
            LET r == y - location[2]
                c == x - location[1]
            IN  IF r \in 1..Len(lines) /\ c \in 1..Len(lines[r])
                THEN lines[r][c]
                ELSE buffer[y][x]]]

RECURSIVE overwrite_panels(_, _, _)
overwrite_panels(h, buffer, others) ==
    IF others = <<>> \/ buffer.raised # "none" THEN buffer
    ELSE LET p == Head(others)
             lines == Panel_draw(h, p)
         IN  overwrite_panels(h,
                 IF lines.raised # "none" THEN lines
                 ELSE Drawn(overwrite(buffer.lines, lines.lines, h.panels[p].location)),
                 Tail(others))

\* The frame of a terminal of this size: the main panel at (0, 0), then the
\* auxiliary panels in insertion order
Application_compose(h, main, others, size) ==
    LET lines == Panel_draw(h, main)
    IN  IF lines.raised # "none" THEN lines
        ELSE overwrite_panels(h,
                 Drawn(overwrite(Times(size[2], Times(size[1], NoTixel)), lines.lines, <<0, 0>>)),
                 others)

\* One operation that changes a panel or a view
LayoutStep(h, op) ==
    /\ l_ops < MaxOps
    /\ SetHeap(h)
    /\ l_last' = op
    /\ l_ops' = l_ops + 1
    /\ UNCHANGED <<drawn, dispatchVars, constrainVars, runVars, smVars, termVars, appVars,
                   histVars, getchVars, encodeVars, frVars>>

\* Sizes asked for: negative, empty, and wider than EmptyView's 5-character label
LayoutSizes == {<<-1, -2>>, <<0, 1>>, <<3, 3>>, <<6, 2>>}

RolePanels == {"p1", "p2", "p3"}
RoleSizes == {<<2, 1>>, <<3, 2>>}
RoleLocations == {<<0, 0>>, <<1, 1>>}

\* can is the answer of the panel's can_become_key (panel.py:87-96)
SetKeyPanel ==
    \E p \in RolePanels, can \in BOOLEAN :
        /\ LayoutStep(IF can THEN Application_set_key_panel(Heap, key_panel, p) ELSE Heap,
                      Op("set_key_panel", p, <<0, 0>>))
        /\ key_panel' = IF can THEN p ELSE key_panel
        /\ UNCHANGED <<main_panel, non_main_panels>>

\* can is the answer of the panel's can_become_main (panel.py:129-138);
\* size is the size of the terminal
SetMainPanel ==
    \E p \in RolePanels, can \in BOOLEAN, size \in RoleSizes :
        /\ ~ \E i \in 1..Len(non_main_panels) : non_main_panels[i] = p
        /\ LayoutStep(IF can THEN Application_set_main_panel(Heap, main_panel, p, size) ELSE Heap,
                      Op("set_main_panel", p, size))
        /\ main_panel' = IF can THEN p ELSE main_panel
        /\ UNCHANGED <<key_panel, non_main_panels>>

AddPanel ==
    \E p \in DOMAIN panels :
        /\ p # main_panel
        /\ ~ \E i \in 1..Len(non_main_panels) : non_main_panels[i] = p
        /\ LayoutStep(Application_add_panel(Heap, p), Op("add_panel", p, <<0, 0>>))
        /\ non_main_panels' = Append(non_main_panels, p)
        /\ UNCHANGED <<main_panel, key_panel>>

Blue == <<0, 0, 255>>   \* color.py:46

ComposeSizes == {<<2, 1>>, <<3, 2>>}
ComposeLocations == {<<0, 0>>, <<1, 1>>, <<-1, 0>>}

\* test.py:184-189 and 191-196: a new panel is given its size, location,
\* title and background colour and is then added
AddConfiguredPanel ==
    \E p \in RolePanels, size \in ComposeSizes, loc \in ComposeLocations,
       title \in {NoTitle, <<84>>}, color \in {Red, Blue} :
        /\ p # main_panel
        /\ ~ \E i \in 1..Len(non_main_panels) : non_main_panels[i] = p
        /\ LayoutStep(
              Application_add_panel(
                  Panel_set_background_color(
                      Panel_set_title(
                          Panel_set_location(Panel_set_size(Heap, p, size), p, loc),
                          p, title),
                      p, color),
                  p),
              Op("add_panel", p, size))
        /\ non_main_panels' = Append(non_main_panels, p)
        /\ UNCHANGED <<main_panel, key_panel>>

\* One frame: the panels composed for a terminal that the main panel fills
Compose ==
    /\ main_panel # NoPanel
    /\ l_last' = Op("compose", main_panel, panels[main_panel].size)
    /\ drawn' = Application_compose(Heap, main_panel, non_main_panels, panels[main_panel].size)
    /\ UNCHANGED <<panels, views, l_ops, main_panel, key_panel, non_main_panels,
                   dispatchVars, constrainVars, runVars, smVars, termVars, appVars,
                   histVars, getchVars, encodeVars, frVars>>

PanelSetLocation ==
    \E p \in RolePanels, loc \in RoleLocations :
        /\ LayoutStep(Panel_set_location(Heap, p, loc), Op("set_location", p, loc))
        /\ UNCHANGED <<main_panel, key_panel, non_main_panels>>

PanelSetSize ==
    \E p \in DOMAIN panels, size \in LayoutSizes :
        /\ LayoutStep(Panel_set_size(Heap, p, size), Op("Panel.set_size", p, size))
        /\ UNCHANGED <<main_panel, key_panel, non_main_panels>>

\* The Application resumed with a Resize event while the terminal has this size
ApplicationResize ==
    \E size \in RoleSizes :
        /\ LayoutStep(Application_resize(Heap, main_panel, size), Op("Resize", main_panel, size))
        /\ UNCHANGED <<main_panel, key_panel, non_main_panels>>

-----------------------------------------------------------------------------
(* One panel and the views it can hold: a SplitView with the two EmptyViews *)
(* its constructor makes, and a FillView, an EmptyView and a base View.    *)

LayoutViews ==
    [v \in {"split", "e1", "e2", "fill", "empty", "plain"} |->
        CASE v = "split" -> View("SplitView", "e1", "e2")
          [] v \in {"e1", "e2", "empty"} -> View("EmptyView", NilView, NilView)
          [] v = "fill" -> View("FillView", NilView, NilView)
          [] OTHER -> View("View", NilView, NilView)]

Leaves == {"fill", "empty", "plain"}

ViewOperation ==
    \/ \E v \in {"split", "fill", "empty"}, size \in LayoutSizes :
          LayoutStep(View_set_size(Heap, v, size), Op("View.set_size", v, size))
    \/ \E v \in {"split"}, origin \in {<<1, 1>>} :
          LayoutStep(set_origin(Heap, v, origin), Op("set_origin", v, origin))
    \/ \E view \in Leaves :
          LayoutStep(set_first_subview(Heap, "split", view), Op("set_first_subview", view, <<0, 0>>))
    \/ \E view \in Leaves :
          LayoutStep(set_second_subview(Heap, "split", view), Op("set_second_subview", view, <<0, 0>>))
    \/ \E yn \in BOOLEAN :
          LayoutStep(set_is_vertical(Heap, "split", yn), Op("set_is_vertical", "split", <<0, 0>>))
    \/ \E yn \in BOOLEAN :
          LayoutStep(set_has_divider(Heap, "split", yn), Op("set_has_divider", "split", <<0, 0>>))

ViewStep ==
    /\ ViewOperation
    /\ UNCHANGED <<main_panel, key_panel, non_main_panels>>

\* "T" fits every width above 2; "Title" is shortened or dropped
Titles == {NoTitle, <<84>>, <<84, 105, 116, 108, 101>>}

PanelSetTitle ==
    \E p \in DOMAIN panels, title \in Titles :
        /\ LayoutStep(Panel_set_title(Heap, p, title), Op("set_title", p, <<0, 0>>))
        /\ UNCHANGED <<main_panel, key_panel, non_main_panels>>

PanelSetContentView ==
    \E p \in DOMAIN panels, view \in {"split", "plain"} :
        /\ LayoutStep(Panel_set_content_view(Heap, p, view), Op("set_content_view", p, <<0, 0>>))
        /\ UNCHANGED <<main_panel, key_panel, non_main_panels>>

Draw ==
    \E v \in DOMAIN views :
        /\ l_last' = Op("draw", v, views[v].size)
        /\ drawn' = View_draw(Heap, v)
        /\ UNCHANGED <<panels, views, l_ops, main_panel, key_panel, non_main_panels,
                       dispatchVars, constrainVars, runVars, smVars, termVars, appVars,
                       histVars, getchVars, encodeVars, frVars>>

\* test.py:160-165: a new panel is given its title and made the main panel,
\* which resizes it to the terminal
SetConfiguredMainPanel ==
    \E p \in DOMAIN panels, title \in Titles :
        /\ LayoutStep(Application_set_main_panel(Panel_set_title(Heap, p, title),
                                                 main_panel, p, term_size),
                      Op("set_main_panel", p, term_size))
        /\ main_panel' = p
        /\ UNCHANGED <<key_panel, non_main_panels>>

\* A Resize event that leaves the terminal's dimensions unchanged
ResizeToSameSize ==
    /\ LayoutStep(Application_resize(Heap, main_panel, term_size),
                  Op("Resize", main_panel, term_size))
    /\ UNCHANGED <<main_panel, key_panel, non_main_panels>>

\* Rows of a grid that a draw may hand to bound_lines: empty, short and long
GridRows ==
    {<<>>, <<Tixel(97, Red, Black)>>, <<Tixel(97, Red, Black), Tixel(98, White, Red)>>,
     <<Tixel(98, White, Red), Tixel(97, Red, Black), Tixel(98, White, Red)>>}

Grids == SeqsUpTo(GridRows, MaxGridRows)
BoundOrigins == {-1, 0, 1, 2} \X {-1, 0, 1, 2}
BoundSizes == {0, 1, 3} \X {0, 1, 3}

BoundLines ==
    \E v \in DOMAIN views, lines \in Grids :
        /\ l_last' = Op("bound_lines", v, lines)
        /\ drawn' = Drawn(bound_lines(Heap, v, lines))
        /\ UNCHANGED <<panels, views, l_ops, main_panel, key_panel, non_main_panels,
                       dispatchVars, constrainVars, runVars, smVars, termVars, appVars,
                       histVars, getchVars, encodeVars, frVars>>

\* Two SplitViews and a ClipView with the EmptyViews their constructors make
\* (splitview.py:40-48, clipview.py:24-26), a FillView and a base View
TreeViews ==
    [v \in {"split", "e1", "e2", "inner", "e3", "e4", "clip", "e5", "fill", "plain"} |->
        CASE v = "split" -> View("SplitView", "e1", "e2")
          [] v = "inner" -> View("SplitView", "e3", "e4")
          [] v = "clip" -> View("ClipView", "e5", NilView)
          [] v \in {"e1", "e2", "e3", "e4", "e5"} -> View("EmptyView", NilView, NilView)
          [] v = "fill" -> View("FillView", NilView, NilView)
          [] OTHER -> View("View", NilView, NilView)]

\* The views a container is given: the outer SplitView takes the inner
\* containers as well
Assignable(container) ==
    IF container = "split" THEN {"inner", "clip", "fill", "plain"} ELSE {"fill", "plain"}

SetFirstSubview ==
    \E v \in {"split", "inner"} : \E view \in Assignable(v) :
        /\ LayoutStep(set_first_subview(Heap, v, view), Op("set_first_subview", view, <<0, 0>>))
        /\ UNCHANGED <<main_panel, key_panel, non_main_panels>>

SetSecondSubview ==
    \E v \in {"split", "inner"} : \E view \in Assignable(v) :
        /\ LayoutStep(set_second_subview(Heap, v, view), Op("set_second_subview", view, <<0, 0>>))
        /\ UNCHANGED <<main_panel, key_panel, non_main_panels>>

SetDocumentView ==
    \E view \in Assignable("clip") :
        /\ LayoutStep(set_document_view(Heap, "clip", view), Op("set_document_view", view, <<0, 0>>))
        /\ UNCHANGED <<main_panel, key_panel, non_main_panels>>

SetApplication ==
    \E v \in {"inner", "fill"} :
        /\ LayoutStep(View_set_application(Heap, v), Op("set_application", v, <<0, 0>>))
        /\ UNCHANGED <<main_panel, key_panel, non_main_panels>>

SetSuperview ==
    \E superview \in {"split", "inner"} : \E v \in Assignable(superview) :
        /\ LayoutStep(set_superview(Heap, v, superview), Op("set_superview", v, <<0, 0>>))
        /\ UNCHANGED <<main_panel, key_panel, non_main_panels>>

\* The main view of the Application is recorded as <<view>>
SetMainView ==
    \E view \in {"split", "plain"} :
        /\ l_ops < MaxOps
        /\ SetHeap(Application_set_main_view(Heap, view))
        /\ main_view' = <<view>>
        /\ l_last' = Op("set_main_view", view, <<0, 0>>)
        /\ l_ops' = l_ops + 1
        /\ UNCHANGED <<drawn, main_panel, key_panel, non_main_panels, dispatchVars,
                       constrainVars, runVars, smVars, termVars, hosted, histVars, getchVars,
                       encodeVars, frVars>>

PanelDraw ==
    \E p \in DOMAIN panels :
        /\ l_last' = Op("Panel.draw", p, panels[p].size)
        /\ drawn' = Panel_draw(Heap, p)
        /\ UNCHANGED <<panels, views, l_ops, main_panel, key_panel, non_main_panels,
                       dispatchVars, constrainVars, runVars, smVars, termVars, appVars,
                       histVars, getchVars, encodeVars, frVars>>

-----------------------------------------------------------------------------
(* constrain_size of every view class.  A view object is a record of its   *)
(* class and of the fields its constrain_size reads; a call returns the    *)
(* size or the exception, and the object as the call leaves it.            *)

NoObject == [class |-> "None"]
NoResult == [raised |-> "none", size |-> <<0, 0>>]

Returns(self, size) == [raised |-> "none", size |-> size, self |-> self]
Raises(self, exception) == [raised |-> exception, size |-> <<0, 0>>, self |-> self]

\* textwrap.wrap(line, width) as TextView uses it (textview.py:248-253), for
\* a line without white space: the number of rows, 0 standing for
\* ValueError("invalid width")
WrapRows(len, wd) ==
    IF len = 0 THEN 1
    ELSE IF wd <= 0 THEN 0
    ELSE (len + wd - 1) \div wd

\* barindicator.py:52-61
BarIndicator_constrain_size(self, new_size) ==
    IF self.is_vertical
    THEN Returns(self, <<IF self.has_readout THEN self.readout_size ELSE 2, Max(2, new_size[2])>>)
    ELSE Returns(self, <<Max(2, new_size[1]), 1>>)

\* button.py:93-104
Button_constrain_size(self, new_size) ==
    IF self.style = "rectangular" THEN Returns(self, <<4 + self.label, 1>>)
    ELSE IF self.style = "on_off" THEN Returns(self, <<10 + self.label, 1>>)
    ELSE Returns(self, <<4 + self.label, 1>>)

\* listview.py:191-197: the size of the list content
ListView_constrain_size(self, new_size) == Returns(self, self.content)

\* accordionview.py:129-140: one row per bar and the rows of the expanded views
AccordionView_constrain_size(self, new_size) ==
    Returns(self, <<new_size[1], self.bars + self.expanded_rows>>)

\* scroller.py:65-75
Scroller_constrain_size(self, new_size) ==
    IF self.is_vertical THEN Returns(self, <<1, new_size[2]>>)
    ELSE Returns(self, <<new_size[1], 1>>)

\* slider.py:40-50
Slider_constrain_size(self, size) ==
    IF self.is_vertical THEN Returns(self, <<3, Max(3, size[2])>>)
    ELSE Returns(self, <<Max(3, size[1]), 1>>)

\* stepper.py:49-55
Stepper_constrain_size(self, new_size) == Returns(self, <<Max(7, new_size[1]), 1>>)

\* tabview.py:122-129
TabView_constrain_size(self, new_size) ==
    Returns(self, <<Max(6 * self.tabs - 1, new_size[1]), Max(1, new_size[2])>>)

\* summaryview.py:38-46 with adjust_text_view (summaryview.py:80-91), and the
\* same code in textfoldview.py:45-54 and 88-99.  text is the length of the
\* summarized text, which is shorter than the summary length; tv_text and
\* tv_rows are the length of the text view's text and its height.
SummaryView_constrain_size(self, size) ==
    IF WrapRows(self.tv_text, size[1]) = 0
    THEN Raises(self, "ValueError")
    ELSE LET shown == IF self.is_expanded THEN self.text ELSE self.text + 3
             rows == WrapRows(shown, Max(1, self.size[1]))
         IN  Returns([self EXCEPT !.tv_text = shown, !.tv_rows = rows],
                     <<Max(1, size[1]), rows + 1>>)

\* view.py:228-237
View_constrain_size(self, new_size) == Returns(self, new_size)

\* box.py:67-81 over a content view that is not itself a Box
Inner_constrain_size(self, s) ==
    CASE self.class = "Scroller" -> Scroller_constrain_size(self, s)
      [] self.class = "Stepper" -> Stepper_constrain_size(self, s)
      [] self.class = "SummaryView" -> SummaryView_constrain_size(self, s)
      [] OTHER -> View_constrain_size(self, s)

Box_constrain_size(self, new_size) ==
    IF ~ self.has_content
    THEN Returns(self, <<Max(2, new_size[1]), Max(2, new_size[2])>>)
    ELSE LET c == Inner_constrain_size(self.content_view, <<new_size[1] - 2, new_size[2] - 2>>)
             after == [self EXCEPT !.content_view = c.self]
         IN  IF c.raised # "none" THEN Raises(after, c.raised)
             ELSE Returns(after, <<2 + c.size[1], 2 + c.size[2]>>)

ConstrainSize(self, s) ==
    CASE self.class = "BarIndicator" -> BarIndicator_constrain_size(self, s)
      [] self.class = "Box" -> Box_constrain_size(self, s)
      [] self.class = "Button" -> Button_constrain_size(self, s)
      [] self.class = "ListView" -> ListView_constrain_size(self, s)
      [] self.class = "AccordionView" -> AccordionView_constrain_size(self, s)
      [] self.class = "Scroller" -> Scroller_constrain_size(self, s)
      [] self.class = "Slider" -> Slider_constrain_size(self, s)
      [] self.class = "Stepper" -> Stepper_constrain_size(self, s)
      [] self.class = "TabView" -> TabView_constrain_size(self, s)
      [] self.class \in {"SummaryView", "TextFoldView"} -> SummaryView_constrain_size(self, s)
      [] OTHER -> View_constrain_size(self, s)

\* view.py:218-226 on such an object: an exception of constrain_size leaves
\* the stored size as it was
Object_set_size(self, new_size) ==
    LET c == ConstrainSize(self, new_size)
    IN  IF c.raised # "none" THEN c.self
        ELSE [c.self EXCEPT !.size = <<Max(c.size[1], 0), Max(c.size[2], 0)>>]

\* New objects, with the settings their setters allow
Plain(class) == [class |-> class, size |-> <<0, 0>>]

TextObjects(class) ==
    { [class |-> class, size |-> <<0, 0>>, text |-> text, is_expanded |-> yn,
       tv_text |-> 0, tv_rows |-> 0] : text \in {0, 2}, yn \in BOOLEAN }

ConstrainObjects ==
    {Plain("View"), Plain("Stepper")}
    \cup { [class |-> "BarIndicator", size |-> <<0, 0>>, is_vertical |-> v,
            has_readout |-> r, readout_size |-> n] :
              v \in BOOLEAN, r \in BOOLEAN, n \in {1, 4} }
    \cup { [class |-> "Button", size |-> <<0, 0>>, style |-> st, label |-> n] :
              st \in {"rectangular", "on_off", "rounded"}, n \in {0, 6} }
    \cup { [class |-> "ListView", size |-> <<0, 0>>, content |-> c] : c \in {<<0, 0>>, <<5, 2>>} }
    \cup { [class |-> "AccordionView", size |-> <<0, 0>>, bars |-> b, expanded_rows |-> e] :
              b \in {0, 2}, e \in {0, 3} }
    \cup { [class |-> cl, size |-> <<0, 0>>, is_vertical |-> v] :
              cl \in {"Scroller", "Slider"}, v \in BOOLEAN }
    \cup { [class |-> "TabView", size |-> <<0, 0>>, tabs |-> n] : n \in {0, 2} }
    \cup TextObjects("SummaryView") \cup TextObjects("TextFoldView")
    \cup { [class |-> "Box", size |-> <<0, 0>>, has_content |-> FALSE, content_view |-> NoObject] }
    \cup { [class |-> "Box", size |-> <<0, 0>>, has_content |-> TRUE, content_view |-> c] :
              c \in {Plain("View"), Plain("Stepper"),
                     [class |-> "Scroller", size |-> <<0, 0>>, is_vertical |-> TRUE]} }

ConstrainSizes == {-1, 0, 2, 12} \X {-1, 0, 2, 12}

\* set_size on the new object
ObjectSetSize ==
    /\ c_pc = "new"
    /\ \E s \in ConstrainSizes : c_view' = Object_set_size(c_view, s)
    /\ c_pc' = "sized"
    /\ UNCHANGED <<c_s, c_once, c_twice>>
    /\ UNCHANGED <<dispatchVars, layoutVars, runVars, smVars, termVars, appVars, histVars,
                   getchVars, encodeVars, frVars>>

ConstrainOnce ==
    /\ c_pc \in {"new", "sized"}
    /\ \E s \in ConstrainSizes :
          /\ c_s' = s
          /\ c_once' = [raised |-> ConstrainSize(c_view, s).raised,
                        size |-> ConstrainSize(c_view, s).size]
          /\ c_view' = ConstrainSize(c_view, s).self
    /\ c_pc' = "once"
    /\ UNCHANGED c_twice
    /\ UNCHANGED <<dispatchVars, layoutVars, runVars, smVars, termVars, appVars, histVars,
                   getchVars, encodeVars, frVars>>

ConstrainTwice ==
    /\ c_pc = "once"
    /\ c_once.raised = "none"
    /\ c_twice' = [raised |-> ConstrainSize(c_view, c_once.size).raised,
                   size |-> ConstrainSize(c_view, c_once.size).size]
    /\ c_view' = ConstrainSize(c_view, c_once.size).self
    /\ c_pc' = "twice"
    /\ UNCHANGED <<c_s, c_once>>
    /\ UNCHANGED <<dispatchVars, layoutVars, runVars, smVars, termVars, appVars, histVars,
                   getchVars, encodeVars, frVars>>

-----------------------------------------------------------------------------
(* Specifications.                                                         *)

DispatchOff ==
    /\ d_chain = <<>> /\ d_linked = FALSE /\ d_key_panel = FALSE /\ d_ev = NoKey
    /\ d_calls = <<>> /\ d_raised = "none" /\ d_pc = "off"
LayoutOff ==
    /\ panels = <<>> /\ views = <<>>
    /\ main_panel = NoPanel /\ key_panel = NoPanel /\ non_main_panels = <<>>
    /\ l_last = Op("none", NoPanel, <<0, 0>>) /\ l_ops = 0
    /\ drawn = Drawn(<<>>)
ConstrainOff ==
    /\ c_view = NoObject /\ c_s = <<0, 0>>
    /\ c_once = NoResult /\ c_twice = NoResult /\ c_pc = "off"
UiOff == DispatchOff /\ LayoutOff /\ ConstrainOff

GetchOff  == g_in = <<>> /\ g_out = GetchRaises("none") /\ g_pc = "off"
EncodeOff == e_tixels = <<>> /\ e_width = 0 /\ e_line = <<>> /\ e_out = <<>> /\ e_pc = "off"

Init ==
    /\ RunInit
    /\ term_size \in TermSizes
    /\ hosted \in {"Application", "Generator"}
    /\ GetchOff /\ EncodeOff /\ FrInit /\ UiOff

Next ==
    \/ Setup
    \/ Spawn
    \/ EnterTry
    \/ Start
    \/ Get
    \/ ForceQuit
    \/ SendKeyPress
    \/ SendResize
    \/ Teardown
    \/ Finish
    \/ ResizeHandler
    \/ KeypressHandler
    \/ TerminalResized

Spec == Init /\ [][Next]_vars

\* The main thread keeps taking the steps of its loop, and every resumption of
\* the hosted computation returns (each is one step).  The hosted computation
\* is Application.run_with_screen, started in a terminal of two columns and
\* one row that the user resizes afterwards.
FairInit == Init /\ hosted = "Application" /\ term_size = <<2, 1>>

Fairness ==
    /\ WF_vars(EnterTry)
    /\ WF_vars(Start)
    /\ WF_vars(Get)
    /\ WF_vars(ForceQuit)
    /\ WF_vars(SendKeyPress)
    /\ WF_vars(SendResize)

FairSpec == FairInit /\ [][Next]_vars /\ Fairness

\* The run of an Application up to and in its loop, with Resize events and
\* with the calls the Application makes of its Screen
CursorNext ==
    \/ Setup
    \/ Spawn
    \/ EnterTry
    \/ Start
    \/ TerminalResized
    \/ ResizeHandler
    \/ Get
    \/ SendResize
    \/ ScreenCall

SpecCursor == FairInit /\ [][CursorNext]_vars

\* The main thread also takes the steps that follow its loop: the finally
\* clause (line 333) and the last lines of run_app (335-346)
FairnessToTheEnd ==
    /\ Fairness
    /\ WF_vars(Teardown)
    /\ WF_vars(Finish)

FairSpecToTheEnd == FairInit /\ [][Next]_vars /\ FairnessToTheEnd

\* ---- getch on one read of stdin, by the worker of a run blocked in get()

GetchAlphabet == {24, 27, 49, 65, 91, 126, 195}   \* Ctrl+X ESC 1 A [ ~ and a byte above 127

ShortReads == SeqsUpTo(GetchAlphabet, MaxReadLen)
TableReads == { e[1] : e \in ESCAPE_SEQUENCES }
Prefixes == { e[1] : e \in MODIFIERS }
Suffixes == { Drop(k, 2) : k \in TableReads }

GetchInputs ==
    ShortReads \cup TableReads
    \cup { p \o t : p \in Prefixes, t \in Suffixes }
    \cup { p \o r : p \in Prefixes, r \in ShortReads }

GetchInit ==
    /\ pc = "wait"
    /\ outcome = Outcome("running", "none", "none")
    /\ should_exit = FALSE
    /\ err = "unbound"
    /\ msg = NoEvent
    /\ main_queue = <<>>
    /\ kb_monitor = "running"
    /\ sigwinch = "resize_handler"
    /\ sig_pending = FALSE
    /\ term_size = <<2, 1>>
    /\ ScreenIs(setup(InitialScreen, <<2, 1>>, "none"))
    /\ hosted = "Generator"
    /\ main_view = NoView
    /\ teardown_calls = 0 /\ teardown_done = FALSE
    /\ handled = "start" /\ app_end = "yield" /\ delivered = <<>>
    /\ n_events = 0 /\ n_reads = 0 /\ n_resizes = 0
    /\ g_in \in GetchInputs
    /\ g_out = GetchRaises("none")
    /\ g_pc = "read"
    /\ EncodeOff /\ FrInit /\ UiOff

\* one iteration of keypress_handler on the read g_in
KbRead ==
    /\ g_pc = "read"
    /\ KeypressHandlerOn(g_in)
    /\ g_out' = getch(g_in)
    /\ g_pc' = "done"
    /\ UNCHANGED <<g_in, encodeVars, frVars, uiVars, pc, outcome, should_exit, err, msg, sigwinch,
                   sig_pending, smVars, termVars, appVars, teardown_calls, teardown_done,
                   repaints, handled, app_end, delivered, n_resizes>>

GetchNext == KbRead

SpecGetch == GetchInit /\ [][GetchNext]_vars

\* ---- one row of a frame, from the view's tixels to the terminal line

EncodeInit ==
    /\ RunInit
    /\ term_size = <<2, 1>>
    /\ hosted = "Application"
    /\ GetchOff /\ FrInit /\ UiOff
    /\ e_tixels \in SeqsUpTo(Tixels, MaxRow)
    /\ e_width \in 0..(MaxRow + 1)
    /\ e_line = <<>>
    /\ e_out = <<>>
    /\ e_pc = "tixels"

\* application.py:169-178
RenderLine ==
    /\ e_pc = "tixels"
    /\ e_line' = RenderedLine(e_tixels)
    /\ e_pc' = "rendered"
    /\ UNCHANGED <<e_tixels, e_width, e_out, runVars, smVars, termVars, appVars, histVars,
                   getchVars, frVars, uiVars>>

\* screen.py:532-533, a row of blank_screen
BlankLine ==
    /\ e_pc = "tixels"
    /\ e_tixels = <<>>
    /\ e_line' = [i \in 1..e_width |-> ScreenTixel(32, NoColor, NoColor)]
    /\ e_pc' = "rendered"
    /\ UNCHANGED <<e_tixels, e_width, e_out, runVars, smVars, termVars, appVars, histVars,
                   getchVars, frVars, uiVars>>

\* screen.py:492-498, the row in ScreenManager.draw
DrawLine ==
    /\ e_pc = "rendered"
    /\ e_line' = enforce_screen_width(e_line, e_width)
    /\ e_out' = line_to_terminal_line(enforce_screen_width(e_line, e_width))
    /\ e_pc' = "drawn"
    /\ UNCHANGED <<e_tixels, e_width, runVars, smVars, termVars, appVars, histVars,
                   getchVars, frVars, uiVars>>

EncodeNext ==
    \/ RenderLine
    \/ BlankLine
    \/ DrawLine

SpecEncode == EncodeInit /\ [][EncodeNext]_vars

\* ---- set_first_responder calls on one Application and one Panel

ResponderInit ==
    /\ RunInit
    /\ term_size = <<2, 1>>
    /\ hosted = "Application"
    /\ GetchOff /\ EncodeOff /\ FrInit /\ UiOff

ResponderNext ==
    \/ AppSetFirstResponder
    \/ PanelSetFirstResponder

SpecResponder == ResponderInit /\ [][ResponderNext]_vars

\* ---- one key press dispatched through a responder chain

DispatchInit ==
    /\ RunInit
    /\ term_size = <<2, 1>>
    /\ hosted = "Application"
    /\ GetchOff /\ EncodeOff /\ FrInit /\ LayoutOff /\ ConstrainOff
    /\ d_chain \in SeqsUpTo([consumes : BOOLEAN], MaxChain)
    /\ d_linked \in BOOLEAN
    /\ d_key_panel \in BOOLEAN
    /\ d_ev = NoKey
    /\ d_calls = <<>>
    /\ d_raised = "none"
    /\ d_pc = "ready"

DispatchNext ==
    \/ DispatchKeyPress
    \/ SendEvent
    \/ ResumeKeyPress

SpecDispatch == DispatchInit /\ [][DispatchNext]_vars

RolesInit ==
    /\ RunInit /\ term_size = <<2, 1>> /\ hosted = "Application"
    /\ GetchOff /\ EncodeOff /\ FrInit /\ DispatchOff /\ ConstrainOff
    /\ panels = [p \in RolePanels |-> Panel]
    /\ views = <<>>
    /\ main_panel = NoPanel /\ key_panel = NoPanel /\ non_main_panels = <<>>
    /\ l_last = Op("none", NoPanel, <<0, 0>>) /\ l_ops = 0
    /\ drawn = Drawn(<<>>)

RolesNext ==
    \/ SetKeyPanel
    \/ SetMainPanel
    \/ AddPanel
    \/ PanelSetLocation
    \/ PanelSetSize
    \/ ApplicationResize

SpecRoles == RolesInit /\ [][RolesNext]_vars

LayoutInit ==
    /\ RunInit /\ term_size = <<2, 1>> /\ hosted = "Application"
    /\ GetchOff /\ EncodeOff /\ FrInit /\ DispatchOff /\ ConstrainOff
    /\ panels = [p \in {"p1"} |-> Panel]
    /\ views = LayoutViews
    /\ main_panel = NoPanel /\ key_panel = NoPanel /\ non_main_panels = <<>>
    /\ l_last = Op("none", NoPanel, <<0, 0>>) /\ l_ops = 0
    /\ drawn = Drawn(<<>>)

LayoutNext ==
    \/ ViewStep
    \/ PanelSetSize
    \/ PanelSetTitle
    \/ PanelSetContentView
    \/ Draw

SpecLayout == LayoutInit /\ [][LayoutNext]_vars

ComposeNext ==
    \/ SetMainPanel
    \/ AddConfiguredPanel
    \/ Compose

SpecCompose == RolesInit /\ [][ComposeNext]_vars

\* One panel and its content view on a terminal of 80 columns and 24 rows
AttachInit ==
    /\ RunInit /\ term_size = <<80, 24>> /\ hosted = "Application"
    /\ GetchOff /\ EncodeOff /\ FrInit /\ DispatchOff /\ ConstrainOff
    /\ panels = [p \in {"p1"} |-> Panel]
    /\ views = LayoutViews
    /\ main_panel = NoPanel /\ key_panel = NoPanel /\ non_main_panels = <<>>
    /\ l_last = Op("none", NoPanel, <<0, 0>>) /\ l_ops = 0
    /\ drawn = Drawn(<<>>)

AttachNext ==
    \/ SetConfiguredMainPanel
    \/ PanelSetTitle
    \/ PanelSetContentView
    \/ ApplicationResize
    \/ ResizeToSameSize

SpecAttach == AttachInit /\ [][AttachNext]_vars

\* A view of any origin and size, as a scrolled container holds it
BoundInit ==
    /\ RunInit /\ term_size = <<2, 1>> /\ hosted = "Application"
    /\ GetchOff /\ EncodeOff /\ FrInit /\ DispatchOff /\ ConstrainOff
    /\ panels = <<>>
    /\ \E origin \in BoundOrigins, size \in BoundSizes :
          views = [v \in {"plain"} |->
                      [View("View", NilView, NilView) EXCEPT !.origin = origin, !.size = size]]
    /\ main_panel = NoPanel /\ key_panel = NoPanel /\ non_main_panels = <<>>
    /\ l_last = Op("none", NoPanel, <<0, 0>>) /\ l_ops = 0
    /\ drawn = Drawn(<<>>)

BoundNext == BoundLines

SpecBound == BoundInit /\ [][BoundNext]_vars

\* One Application, one panel and the views of TreeViews, none attached
TreeInit ==
    /\ RunInit /\ term_size = <<2, 1>> /\ hosted = "Application"
    /\ GetchOff /\ EncodeOff /\ FrInit /\ DispatchOff /\ ConstrainOff
    /\ panels = [p \in {"p1"} |-> Panel]
    /\ views = TreeViews
    /\ main_panel = NoPanel /\ key_panel = NoPanel /\ non_main_panels = <<>>
    /\ l_last = Op("none", NoPanel, <<0, 0>>) /\ l_ops = 0
    /\ drawn = Drawn(<<>>)

TreeNext ==
    \/ SetMainView
    \/ AddPanel
    \/ PanelSetContentView
    \/ SetFirstSubview
    \/ SetSecondSubview
    \/ SetDocumentView
    \/ SetApplication
    \/ SetSuperview

SpecTree == TreeInit /\ [][TreeNext]_vars

\* Subview assignments only
SubviewsNext ==
    \/ SetFirstSubview
    \/ SetSecondSubview
    \/ SetDocumentView

SpecSubviews == TreeInit /\ [][SubviewsNext]_vars

\* The panel's own operations only
PanelNext ==
    \/ PanelSetSize
    \/ PanelSetTitle
    \/ PanelSetContentView
    \/ PanelDraw

SpecPanel == LayoutInit /\ [][PanelNext]_vars

ConstrainInit ==
    /\ RunInit /\ term_size = <<2, 1>> /\ hosted = "Application"
    /\ GetchOff /\ EncodeOff /\ FrInit /\ DispatchOff /\ LayoutOff
    /\ c_view \in ConstrainObjects
    /\ c_s = <<0, 0>> /\ c_once = NoResult /\ c_twice = NoResult
    /\ c_pc = "new"

ConstrainNext ==
    \/ ObjectSetSize
    \/ ConstrainOnce
    \/ ConstrainTwice

SpecConstrain == ConstrainInit /\ [][ConstrainNext]_vars

-----------------------------------------------------------------------------
(* The run loop: claims C1 - C6.                                           *)

\* run_app ended through its own last lines (342-346 or falling off the end):
\* the Running phase ended by normal completion, by the force-quit key or by
\* an exception caught at lines 328-331, and no terminal fault was raised
\* outside the try statement afterwards
ExitedByRunApp == pc = "done" /\ outcome.via \in {"end", "line 343", "line 346"}

TerminalRestored ==
    /\ term_cursor = "shown" /\ cursor_is_visible
    /\ ~term_alt
    /\ height > 0 => screen_contents.of = "blank"
    /\ original_terminal_settings = "cooked"
    /\ term_attrs = original_terminal_settings

C2_SameExceptionReraised ==
    ExitedByRunApp =>
        /\ app_end \in Exceptions =>
               outcome = Outcome("raised", app_end, "line 346") /\ teardown_done
        /\ app_end = "return" =>
               outcome = Outcome("returned", "none", "end") /\ teardown_done

C2_Witness ==
    /\ ExitedByRunApp
    /\ app_end = "NameError"
    /\ handled = "KeyPressEvent"

C2_WitnessReturn == ExitedByRunApp /\ app_end = "return" /\ outcome.status = "returned"

IsForceQuit(ev) == ev.type = "KeyPressEvent" /\ ev.key_code = <<24>>

\* the loop caught no exception (a fault of the resize handler can be raised
\* between the dequeue of line 318 and the test of line 319)
NothingCaught == err = "unbound"

\* C3: no delivered event is the force-quit key press; once that key press is
\* dequeued no event queued after it is delivered, the loop ends at the test
\* of line 319, and run_app ends with teardown done and SystemExit raised.
C3_ForceQuitNeverDelivered ==
    /\ \A i \in 1..Len(delivered) : ~IsForceQuit(delivered[i])
    /\ (pc \in {"dispatch", "teardown", "cleanup", "done"} /\ IsForceQuit(msg)) =>
           \A i \in 1..Len(delivered) : delivered[i].id < msg.id
    /\ (IsForceQuit(msg) /\ NothingCaught) => pc # "wait"
    /\ (pc \in {"teardown", "cleanup", "done"} /\ IsForceQuit(msg) /\ NothingCaught) =>
           should_exit
    /\ (ExitedByRunApp /\ IsForceQuit(msg) /\ NothingCaught) =>
           outcome = Outcome("raised", "SystemExit", "line 343") /\ teardown_done

C3_Witness ==
    /\ ExitedByRunApp
    /\ IsForceQuit(msg)
    /\ main_queue # <<>>
    /\ delivered # <<>>

\* C4 as claimed: between a dequeue and the next wait at most one full-screen
\* write, for a key press and for a resize alike.
C4_AtMostOneRepaint ==
    (pc = "wait" /\ hosted = "Application" /\ handled \in {"KeyPressEvent", "ResizeEvent"})
        => repaints <= 1

\* C4 amended: at most one full-screen write for a key press; at most two for
\* a resize, the first being the blank set_size writes before the Application
\* is resumed.
C4_RepaintsPerEvent ==
    (pc = "wait" /\ hosted = "Application") =>
        /\ handled = "KeyPressEvent" => repaints <= 1
        /\ handled = "ResizeEvent" =>
               repaints = (IF height > 0 THEN 1 ELSE 0)
                          + (IF height > 0 /\ main_view # NoView THEN 1 ELSE 0)

C4_Witness ==
    /\ pc = "wait" /\ hosted = "Application"
    /\ handled = "ResizeEvent"
    /\ repaints = 2

C4_WitnessKey ==
    pc = "wait" /\ hosted = "Application" /\ handled = "KeyPressEvent" /\ repaints = 1

\* the state only the main thread may write
MainThreadState == <<smVars, main_view>>

\* C5: a step of the keyboard worker or of the resize handler leaves the
\* ScreenManager's fields and the Application's state as they are, and so does
\* every step taken while the loop is blocked on the queue.
C5_ProducersOnlyEnqueue ==
    /\ [][(KeypressHandler \/ ResizeHandler) => UNCHANGED MainThreadState]_vars
    /\ [][pc = "wait" => UNCHANGED MainThreadState]_vars

C5_Witness ==
    /\ pc = "wait"
    /\ \E i, j \in 1..Len(main_queue) :
           main_queue[i].type = "KeyPressEvent" /\ main_queue[j].type = "ResizeEvent"

Ids(events) == [i \in 1..Len(events) |-> events[i].id]
LoopEnded == pc \in {"teardown", "cleanup", "done"}

\* C6: a run of the handler enqueues one Resize event with the size queried
\* then (or raises); while the loop runs every event published is, once and in
\* order, delivered, being dispatched or still queued; and under fair
\* scheduling of the main thread a queued Resize event is delivered unless
\* the loop ends.
C6_ResizeDelivered ==
    /\ [][ResizeHandler =>
            \/ main_queue' = Append(main_queue,
                                    ResizeEvent(n_events + 1, term_size[1], term_size[2]))
            \/ main_queue' = main_queue /\ pc' \in {"teardown", "done"}]_vars
    /\ [](pc \in {"created", "start", "wait"} =>
            Ids(delivered \o main_queue) = [i \in 1..n_events |-> i])
    /\ [](pc = "dispatch" =>
            Ids(delivered \o <<msg>> \o main_queue) = [i \in 1..n_events |-> i])
    /\ \A k \in 1..(MaxReads + MaxResizes) :
          (\E i \in 1..Len(main_queue) :
               main_queue[i].id = k /\ main_queue[i].type = "ResizeEvent")
          ~> ((\E i \in 1..Len(delivered) : delivered[i].id = k) \/ LoopEnded)

C6_Witness ==
    /\ \E i \in 1..Len(delivered) : delivered[i].type = "ResizeEvent" /\ delivered[i].id = 2
    /\ \E i \in 1..Len(delivered) : delivered[i].type = "KeyPressEvent"

-----------------------------------------------------------------------------
(* Input decoding: claims C7, C8.                                          *)

\* the read is neither one byte, nor a named sequence, nor a modifier prefix
\* followed by a known suffix
Unrecognised(s) ==
    /\ Len(s) # 1
    /\ ~InTable(ESCAPE_SEQUENCES, s)
    /\ ~(InTable(MODIFIERS, Take(s, 5)) /\ InTable(ESCAPE_SEQUENCES, CSI \o Drop(s, 5)))

\* C7 as claimed: getch returns a key tuple for every read, bytes that are not
\* ASCII included; an unrecognised read comes back as the raw string with no
\* flags; and the worker is still running after the read.
C7_DecodingNeverRaises ==
    g_pc = "done" =>
        /\ g_out.exc = "none"
        /\ Unrecognised(g_in) => g_out = KeyTuple(g_in, FALSE, FALSE, FALSE)
        /\ kb_monitor = "running"

\* what the code does keep of C7: the claim holds of every read made of bytes
\* below 128, and a read with a byte above 127 ends the worker with nothing
\* enqueued
C7_HoldsOfAsciiReads ==
    g_pc = "done" =>
        IF AsciiDecodable(g_in)
        THEN /\ g_out.exc = "none"
             /\ Unrecognised(g_in) => g_out = KeyTuple(g_in, FALSE, FALSE, FALSE)
             /\ kb_monitor = "running"
             /\ Len(main_queue) = 1 /\ main_queue[1].key_code = g_out.ch
        ELSE /\ g_out.exc = "UnicodeDecodeError"
             /\ kb_monitor = "crashed"
             /\ main_queue = <<>>

NamedKey(name, mods) == KeyTuple(name, "Ctrl" \in mods, "Alt" \in mods, "Shift" \in mods)

\* the first two parts of C8
TablesDecoded ==
    /\ InTable(ESCAPE_SEQUENCES, g_in) =>
           g_out = NamedKey(Lookup(ESCAPE_SEQUENCES, g_in), {})
    /\ \A m \in MODIFIERS : \A t \in Suffixes :
           g_in = m[1] \o t => g_out = NamedKey(Lookup(ESCAPE_SEQUENCES, CSI \o t), m[2])

\* C8 as claimed: a named sequence decodes to its name with no flags, a
\* modifier prefix followed by a known suffix decodes to the name with the
\* prefix's flags, and a single byte decodes to itself with no flags.
C8_TablesAndSingleBytes ==
    g_pc = "done" =>
        /\ TablesDecoded
        /\ Len(g_in) = 1 => g_out = KeyTuple(g_in, FALSE, FALSE, FALSE)

\* what the code does keep of C8: the tables, and single bytes below 128
C8_HoldsOfAsciiReads ==
    g_pc = "done" =>
        /\ TablesDecoded
        /\ (Len(g_in) = 1 /\ AsciiDecodable(g_in)) => g_out = KeyTuple(g_in, FALSE, FALSE, FALSE)

-----------------------------------------------------------------------------
(* Output encoding: claim C9.                                              *)

\* what the encoder appended for cell i of the row
CellOutput(line, i) ==
    Drop(EncodeCells(line, i).terminal_line, Len(EncodeCells(line, i - 1).terminal_line))

Occurrences(code, out) ==
    Cardinality({ i \in 1..(Len(out) - Len(code) + 1) : SubSeq(out, i, i + Len(code) - 1) = code })

UniformRow(line) ==
    /\ line # <<>>
    /\ \A i \in 1..Len(line) :
           /\ Rgb(line[i].foreground) = Rgb(line[1].foreground)
           /\ Rgb(line[i].background) = Rgb(line[1].background)

\* C9 as claimed: after the first cell a colour code is written only for a
\* cell whose (r,g,b) value differs from the value last written on the row, so
\* a row of one foreground and one background value has one code of each.
C9_CodeOnlyOnValueChange ==
    e_pc = "drawn" =>
        /\ \A i \in 2..Len(e_line) :
               /\ Occurrences(FgPrefix, CellOutput(e_line, i)) > 0 =>
                      Rgb(e_line[i].foreground) # Rgb(EncodeCells(e_line, i - 1).fg_color)
               /\ Occurrences(BgPrefix, CellOutput(e_line, i)) > 0 =>
                      Rgb(e_line[i].background) # Rgb(EncodeCells(e_line, i - 1).bg_color)
        /\ UniformRow(e_line) =>
               /\ Occurrences(FgPrefix, e_out) = 1
               /\ Occurrences(BgPrefix, e_out) = 1
               /\ Occurrences(ResetCode, e_out) = 1

\* what the code does: a code is written for every cell after the first whose
\* colour is not None and is another object than the one last written
C9_CodeOnObjectChange ==
    e_pc = "drawn" =>
        \A i \in 2..Len(e_line) :
            /\ Occurrences(FgPrefix, CellOutput(e_line, i)) =
                   (IF e_line[i].foreground # NoColor
                       /\ e_line[i].foreground[1] # EncodeCells(e_line, i - 1).fg_color[1]
                    THEN 1 ELSE 0)
            /\ Occurrences(BgPrefix, CellOutput(e_line, i)) =
                   (IF e_line[i].background # NoColor
                       /\ e_line[i].background[1] # EncodeCells(e_line, i - 1).bg_color[1]
                    THEN 1 ELSE 0)

-----------------------------------------------------------------------------
(* First responder: claim C10.                                             *)

\* the calls a hand-over makes when every step returns true
AllSteps(before, candidate) ==
    (IF before = NoResponder THEN <<>> ELSE <<<<"resign_first_responder", before>>>>)
    \o << <<"accepts_first_responder", candidate>>, <<"become_first_responder", candidate>> >>

\* C10: the last set_first_responder call made its calls in the order resign
\* (when there was a first responder), accepts, become, each one only after
\* the one before returned true; the recorded first responder is the
\* candidate when every step returned true and the object of before otherwise.
C10_Transactional ==
    fr_last.owner # "none" =>
        LET c == fr_last.calls
            steps == AllSteps(fr_last.before, fr_last.responder)
            recorded == IF fr_last.owner = "application" THEN fr_app ELSE fr_panel
            succeeded == Len(c) = Len(steps) /\ \A i \in 1..Len(c) : c[i].result
        IN  /\ Len(c) >= 1 /\ Len(c) <= Len(steps)
            /\ \A i \in 1..Len(c) : <<c[i].method, c[i].target>> = steps[i]
            /\ \A i \in 2..Len(c) : c[i - 1].result
            /\ \A i \in 1..Len(c) : (c[i].result /\ i < Len(steps)) => Len(c) > i
            /\ recorded = (IF succeeded THEN fr_last.responder ELSE fr_last.before)

C10_Witness ==
    /\ fr_last.owner = "panel"
    /\ fr_last.before \notin {NoResponder, fr_last.responder}
    /\ Len(fr_last.calls) = 3
    /\ ~fr_last.calls[3].result
    /\ fr_panel = fr_last.before

C10_WitnessApplication ==
    /\ fr_last.owner = "application"
    /\ fr_last.before \notin {NoResponder, fr_last.responder}
    /\ Len(fr_last.calls) = 1
    /\ fr_app = fr_last.before

-----------------------------------------------------------------------------
(* Key press dispatch: claims C11, C12.                                    *)

NoneConsumes(chain) == \A i \in 1..Len(chain) : ~chain[i].consumes

CallsOf(method, calls) == SelectSeq(calls, LAMBDA c : c.method = method)

\* key_press on every view of the chain, first responder first, then on the Application
ChainOrder(chain, ev) ==
    [i \in 1..(Len(chain) + 1) |->
        Sent("key_press", IF i <= Len(chain) THEN ViewAt(i) ELSE TheApplication, ev)]

\* C11: a key press dispatched to the first responder of a chain of views that
\* ends at the Application, none of them consuming it, calls key_press once on
\* each responder in chain order and Application.no_responder once with that
\* event, and no NoResponderException leaves the dispatch.
C11_ChainEndsInOneNoResponder ==
    (d_pc = "application" /\ d_chain # <<>> /\ d_linked /\ NoneConsumes(d_chain)) =>
        /\ CallsOf("key_press", d_calls) = ChainOrder(d_chain, d_ev)
        /\ CallsOf("no_responder", d_calls) = <<Sent("no_responder", TheApplication, d_ev)>>
        /\ d_calls = ChainOrder(d_chain, d_ev) \o <<Sent("no_responder", TheApplication, d_ev)>>
        /\ d_raised = "none"

C11_Witness ==
    /\ d_pc = "application"
    /\ Len(d_chain) = 2 /\ d_linked /\ NoneConsumes(d_chain)
    /\ Len(d_calls) = 4
    /\ d_calls[4] = Sent("no_responder", TheApplication, d_ev)

\* the same of a chain whose topmost view has no application: the exception
\* of the last view is caught at application.py:219
C11_UnlinkedChain ==
    (d_pc = "application" /\ NoneConsumes(d_chain)) =>
        /\ CallsOf("key_press", d_calls) = ChainOrder(d_chain, d_ev)
        /\ Len(SelectSeq(d_calls, LAMBDA c : c = Sent("no_responder", TheApplication, d_ev))) = 1
        /\ d_raised = "none"

\* C12 as claimed: send_event returns normally whatever the panel's first
\* responder does with the event, the panel's no_responder having swallowed
\* what nobody handled.
C12_SendEventNeverRaises ==
    d_pc = "panel" => d_raised = "none"

\* what the code does: send_event returns only when the chain consumed the
\* event or ended at the Application; in the two cases of the claim the
\* panel's no_responder is called and raises
C12_SendEventRaises ==
    d_pc = "panel" =>
        LET unhandled == d_chain = <<>> \/ (NoneConsumes(d_chain) /\ ~d_linked)
        IN  /\ unhandled <=> d_raised = "NoResponderException"
            /\ unhandled <=> d_calls[Len(d_calls)] = Sent("no_responder", ThePanel, d_ev)

-----------------------------------------------------------------------------
(* Panel roles: claim C13.                                                 *)

KeyPanels == {p \in DOMAIN panels : panels[p].is_key_panel}
MainPanels == {p \in DOMAIN panels : panels[p].is_main_panel}

\* C13: after any sequence of key-panel and main-panel changes, each made
\* as resign on the old panel and become on the new one, at most one panel
\* has is_key_panel set and at most one has is_main_panel set.
C13_AtMostOneKeyAndOneMain ==
    /\ Cardinality(KeyPanels) <= 1
    /\ Cardinality(MainPanels) <= 1

\* Supporting: the flags are never cleared, so every panel that once held a
\* role still shows it.
C13_RolesNeverCleared ==
    [][\A p \in DOMAIN panels :
          /\ panels[p].is_key_panel => panels'[p].is_key_panel
          /\ panels[p].is_main_panel => panels'[p].is_main_panel]_vars

-----------------------------------------------------------------------------
(* Geometry of panels and views: claims C14 - C16.                         *)

Floor0(n) == Max(n, 0)

WithContent == {p \in DOMAIN panels : panels[p].content_view # NilView}

ContentSize(p) == views[panels[p].content_view].size

\* C14 as stated: the content view is the panel less 2 columns if bordered,
\* less 1 row if titled and 1 more row if both bordered and titled.
C14_ChromeAsStated ==
    \A p \in WithContent :
        LET self == panels[p]
            titled == self.title # NoTitle
        IN  ContentSize(p) =
                <<Floor0(self.size[1] - (IF self.has_border THEN 2 ELSE 0)),
                  Floor0(self.size[2] - (IF titled THEN 1 ELSE 0)
                                      - (IF titled /\ self.has_border THEN 1 ELSE 0))>>

\* C14 as amended: a panel is bordered from construction on, and its content
\* view is the panel less 2 columns and 2 rows, titled or not, floored at 0.
C14_ChromeOfBorderedPanel ==
    \A p \in WithContent :
        /\ panels[p].has_border
        /\ ContentSize(p) = <<Floor0(panels[p].size[1] - 2), Floor0(panels[p].size[2] - 2)>>

C14_Witness ==
    /\ l_last.op = "set_title"
    /\ panels["p1"].title # NoTitle
    /\ panels["p1"].content_view = "plain"
    /\ panels["p1"].size = <<3, 3>>
    /\ views["plain"].size = <<1, 1>>

\* C15: after any sequence of set_size calls, with negative widths and
\* heights too, every view - resized directly, as the child of a SplitView
\* or as the content view of a panel - has a stored size with width >= 0
\* and height >= 0.
C15_SizesNeverNegative ==
    \A v \in DOMAIN views : views[v].size[1] >= 0 /\ views[v].size[2] >= 0

\* A SplitView asked to be <<-1, -2>> stores <<0, 0>>, and hands its second
\* subview the height -1, which that view stores as 0.
C15_Witness ==
    /\ l_last = Op("View.set_size", "split", <<-1, -2>>)
    /\ views["split"].size = <<0, 0>>
    /\ views["split"].is_vertical /\ views["split"].has_divider
    /\ views[views["split"].second_subview].size = <<0, 0>>

\* Supporting: a panel of negative size, whose content view is asked to be
\* <<-3, -4>>, leaves it <<0, 0>>.
C15_WitnessPanel ==
    /\ l_last.op \in {"Panel.set_size", "set_content_view"}
    /\ panels["p1"].size = <<-1, -2>>
    /\ panels["p1"].content_view = "split"
    /\ views["split"].size = <<0, 0>>

\* C16: draw() of a view of size (w, h) returns exactly h rows of exactly w
\* Tixels, whatever set_size, set_origin and subview assignments came before.
C16_DrawFillsTheSize ==
    l_last.op = "draw" =>
        /\ drawn.raised = "none"
        /\ Len(drawn.lines) = l_last.arg[2]
        /\ \A y \in 1..Len(drawn.lines) : Len(drawn.lines[y]) = l_last.arg[1]

\* Supporting: every draw that returns fills the size exactly, and the only
\* draw that does not return is that of a SplitView that is not vertical,
\* or of nothing else.
C16_ReturnedDrawsFillTheSize ==
    l_last.op = "draw" =>
        IF drawn.raised = "none"
        THEN /\ Len(drawn.lines) = l_last.arg[2]
             /\ \A y \in 1..Len(drawn.lines) : Len(drawn.lines[y]) = l_last.arg[1]
        ELSE /\ drawn.raised = "IndexError"
             /\ views[l_last.target].class = "SplitView"
             /\ ~ views[l_last.target].is_vertical

-----------------------------------------------------------------------------
(* constrain_size: claim C17.                                              *)

\* C17: for every view class and every proposed size s, zero and negative
\* dimensions included, constrain_size(constrain_size(s)) equals
\* constrain_size(s).
C17_ConstrainSizeIdempotent ==
    /\ c_pc = "once" => c_once.raised = "none"
    /\ c_pc = "twice" => c_twice.raised = "none" /\ c_twice.size = c_once.size

TextClasses == {"SummaryView", "TextFoldView"}

\* Supporting: whenever constrain_size(s) returns, applying it again to the
\* result returns the same size; and it returns for every class but the two
\* that wrap text, and for those whenever the proposed width is positive.
C17_IdempotentWhereItReturns ==
    /\ c_pc = "twice" => c_twice.raised = "none" /\ c_twice.size = c_once.size
    /\ c_pc = "once" /\ c_once.raised # "none" =>
          /\ c_view.class \in TextClasses
          /\ c_s[1] <= 0
          /\ c_view.tv_text > 0

-----------------------------------------------------------------------------
(* Terminal faults: claim C18.                                             *)

TerminalFaults == {"OSError", "termios.error"}

\* C18: a terminal I/O fault raised anywhere during run_app (in setup, in
\* the resize handler, in a write of a draw) reaches run_app's caller only
\* after teardown has executed.
C18_FaultsReachCallerAfterTeardown ==
    pc = "done" /\ outcome.status = "raised" /\ outcome.exc \in TerminalFaults
        => teardown_calls >= 1

\* Supporting: a fault that the try statement of lines 315-331 catches is
\* re-raised at line 346, after the one call of teardown.
C18_FaultsCaughtByTheTry ==
    pc = "done" /\ outcome.via = "line 346" /\ outcome.exc \in TerminalFaults
        => teardown_calls = 1 /\ teardown_done

-----------------------------------------------------------------------------
(* Resize and key press with panels: claims C19, C20.                      *)

ResizeHandled == l_last'.op = "Resize" /\ l_ops' = l_ops + 1

C19_WitnessPlaced ==
    /\ l_last.op = "Resize"
    /\ \E p \in DOMAIN panels \ {main_panel} :
          panels[p].size = <<6, 2>> /\ panels[p].location = <<1, 1>>

Count(call, calls) == Len(SelectSeq(calls, LAMBDA c : c = call))

C20_WitnessNoKeyPanel ==
    /\ d_pc = "resumed" /\ ~d_key_panel
    /\ d_calls[1] = Sent("key_press", TheApplication, d_ev)


-----------------------------------------------------------------------------
(* Panel.draw: claim C30.                                                  *)

\* C30: Panel.draw() of a panel of size (w, h), w, h >= 0, returns exactly h
\* rows of exactly w Tixels, with or without title and content view.
C30_PanelDrawFillsThePanel ==
    (l_last.op = "Panel.draw" /\ l_last.arg[1] >= 0 /\ l_last.arg[2] >= 0) =>
        /\ drawn.raised = "none"
        /\ Len(drawn.lines) = l_last.arg[2]
        /\ \A y \in 1..Len(drawn.lines) : Len(drawn.lines[y]) = l_last.arg[1]

\* Supporting: what Panel.draw does return.  Without a content view: a title
\* row, if titled, above h rows of w cells, so the rectangle is exact only
\* for an untitled panel.  With a content view: the title row, if titled,
\* above the drawing of the content view, which has the content view's
\* size (w-2, h-2).  Every row that Panel.draw itself makes is w wide.
C30_PanelDrawReturns ==
    (l_last.op = "Panel.draw" /\ l_last.arg[1] >= 0 /\ l_last.arg[2] >= 0
        /\ drawn.raised = "none") =>
        LET self == panels[l_last.target]
            t == IF self.title = NoTitle THEN 0 ELSE 1
        IN  /\ t = 1 => Len(drawn.lines[1]) = self.size[1]
            /\ IF self.content_view = NilView
               THEN /\ Len(drawn.lines) = t + self.size[2]
                    /\ \A y \in 1..Len(drawn.lines) : Len(drawn.lines[y]) = self.size[1]
               ELSE /\ Len(drawn.lines) = t + views[self.content_view].size[2]
                    /\ \A y \in (t + 1)..Len(drawn.lines) :
                          Len(drawn.lines[y]) = views[self.content_view].size[1]


-----------------------------------------------------------------------------
(* The composed frame: claim C21.                                          *)

\* The auxiliary panels, by position in insertion order, whose rectangle
\* (location and size) holds the screen cell of column x and row y, from 0
PanelsAt(x, y) ==
    {i \in 1..Len(non_main_panels) :
        LET self == panels[non_main_panels[i]]
        IN  /\ self.location[1] <= x /\ x < self.location[1] + self.size[1]
            /\ self.location[2] <= y /\ y < self.location[2] + self.size[2]}

Last(S) == CHOOSE i \in S : \A j \in S : j <= i

\* The cell that panel p draws for the screen cell (x, y), if it draws one
CellOf(p, x, y) ==
    LET lines == Panel_draw(Heap, p).lines
        r == y - panels[p].location[2] + 1
        c == x - panels[p].location[1] + 1
    IN  IF r \in 1..Len(lines) /\ c \in 1..Len(lines[r]) THEN lines[r][c] ELSE NoTixel

\* C21: in the composed frame every screen cell inside one or more auxiliary
\* panels shows the cell of the panel added last among them, every other
\* cell shows the main panel's cell, and what falls outside the screen is
\* dropped.
C21_LastAddedPanelWins ==
    l_last.op = "compose" =>
        /\ drawn.raised = "none"
        /\ Len(drawn.lines) = l_last.arg[2]
        /\ \A y \in 1..Len(drawn.lines) :
              /\ Len(drawn.lines[y]) = l_last.arg[1]
              /\ \A x \in 1..Len(drawn.lines[y]) :
                    LET inside == PanelsAt(x - 1, y - 1)
                        shown == IF inside # {}
                                 THEN CellOf(non_main_panels[Last(inside)], x - 1, y - 1)
                                 ELSE CellOf(main_panel, x - 1, y - 1)
                    IN  shown # NoTixel /\ drawn.lines[y][x] = shown

\* The auxiliary panels whose drawing, as Panel.draw returns it, has a cell
\* for the screen cell (x, y)
DrawingsAt(x, y) ==
    {i \in 1..Len(non_main_panels) : CellOf(non_main_panels[i], x, y) # NoTixel}

\* Supporting: the frame has the size of the screen, and each of its cells
\* shows the last-added auxiliary panel whose drawing reaches the cell,
\* else the main panel's cell.
C21_LastDrawingWins ==
    l_last.op = "compose" =>
        /\ drawn.raised = "none"
        /\ Len(drawn.lines) = l_last.arg[2]
        /\ \A y \in 1..Len(drawn.lines) :
              /\ Len(drawn.lines[y]) = l_last.arg[1]
              /\ \A x \in 1..Len(drawn.lines[y]) :
                    LET reaching == DrawingsAt(x - 1, y - 1)
                    IN  drawn.lines[y][x] =
                            IF reaching # {}
                            THEN CellOf(non_main_panels[Last(reaching)], x - 1, y - 1)
                            ELSE CellOf(main_panel, x - 1, y - 1)

\* Supporting: two overlapping auxiliary panels, the later one on top, part
\* of it off the screen
C21_WitnessOverlap ==
    /\ l_last.op = "compose" /\ l_last.arg = <<3, 2>>
    /\ Len(non_main_panels) = 2
    /\ panels[non_main_panels[1]].location = <<0, 0>>
    /\ panels[non_main_panels[2]].location = <<1, 1>>
    /\ panels[non_main_panels[1]].background_color = Red
    /\ panels[non_main_panels[2]].background_color = Blue
    /\ panels[non_main_panels[1]].size = <<3, 2>>
    /\ panels[non_main_panels[2]].size = <<3, 2>>
    /\ panels[non_main_panels[1]].title = NoTitle
    /\ panels[non_main_panels[2]].title = NoTitle
    /\ drawn.lines[2] = <<Tixel(32, Red, Red), Tixel(32, Blue, Blue), Tixel(32, Blue, Blue)>>


-----------------------------------------------------------------------------
(* The main panel on a terminal of 80 x 24: claim C22.                     *)

\* The main panel has just been attached, or a Resize event has been handled,
\* with the terminal at 80 x 24, and the panel is titled and has a content view
LaidOutAt80x24 ==
    /\ l_last.op \in {"set_main_panel", "Resize"}
    /\ l_last.arg = <<80, 24>>
    /\ main_panel # NoPanel
    /\ panels[main_panel].has_border
    /\ panels[main_panel].title # NoTitle
    /\ panels[main_panel].content_view # NilView

C22_WitnessAttached ==
    /\ LaidOutAt80x24
    /\ l_last.op = "set_main_panel"
    /\ views[panels[main_panel].content_view].size = <<78, 22>>


-----------------------------------------------------------------------------
(* Force quit, liveness: claim C23.                                        *)

\* The worker has read Ctrl+X and published it as a key press
ForceQuitRead ==
    \/ \E i \in 1..Len(main_queue) : IsForceQuit(main_queue[i])
    \/ pc = "dispatch" /\ IsForceQuit(msg)

\* C23: once the worker has read the force-quit byte as a key press, run_app
\* eventually terminates with teardown executed, whatever is queued ahead.
C23_ForceQuitEndsTheRun ==
    ForceQuitRead ~> (pc = "done" /\ teardown_calls >= 1)

\* Supporting: run_app does terminate, and with teardown executed unless an
\* exception left it from outside the try statement (the resize handler
\* raising after line 309 and before line 315).
C23_EndsAndTearsDownFromTheTry ==
    ForceQuitRead ~> (pc = "done" /\ (teardown_calls >= 1 \/ outcome.via = "propagated"))

\* Supporting: the force-quit key press read while events are queued ahead
\* of it, and run_app ended by it
C23_WitnessQueuedAhead ==
    /\ pc = "done" /\ should_exit /\ teardown_calls = 1
    /\ IsForceQuit(msg) /\ msg.id > 1
    /\ delivered # <<>>


-----------------------------------------------------------------------------
(* bound_lines: claim C24.                                                 *)

\* C24: for every grid g, every origin (x, y) of either sign and every size
\* (w, h), bound_lines returns exactly h rows of exactly w Tixels; the cell
\* at row r, column c is g[r+y][c+x] when r+y and c+x are non-negative and
\* g has that cell, and the padding space otherwise.
C24_BoundLinesIsTheWindow ==
    l_last.op = "bound_lines" =>
        LET g == l_last.arg
            x == views[l_last.target].origin[1]
            y == views[l_last.target].origin[2]
            w == views[l_last.target].size[1]
            ht == views[l_last.target].size[2]
        IN  /\ Len(drawn.lines) = ht
            /\ \A r \in 0..(ht - 1) :
                  /\ Len(drawn.lines[r + 1]) = w
                  /\ \A c \in 0..(w - 1) :
                        drawn.lines[r + 1][c + 1] =
                            IF /\ r + y >= 0 /\ c + x >= 0
                               /\ r + y < Len(g)
                               /\ c + x < Len(g[r + y + 1])
                            THEN g[r + y + 1][c + x + 1]
                            ELSE Space

\* A ragged grid seen from the origin (-1, 1) through a window of 3 x 3: the
\* first column is padding, the first row is the grid's second row, the
\* rows below the grid are padding
C24_Witness ==
    /\ l_last.op = "bound_lines"
    /\ l_last.arg = <<<<Tixel(97, Red, Black)>>,
                      <<Tixel(98, White, Red), Tixel(97, Red, Black), Tixel(98, White, Red)>>>>
    /\ views["plain"].origin = <<-1, 1>>
    /\ views["plain"].size = <<3, 3>>
    /\ drawn.lines = <<<<Space, Tixel(98, White, Red), Tixel(97, Red, Black)>>,
                       <<Space, Space, Space>>, <<Space, Space, Space>>>>


-----------------------------------------------------------------------------
(* Cells without a colour: claim C25.                                      *)

\* The colours in effect on the terminal when the character of cell i is
\* written: those of the last codes written on the row
DisplayedFg(line, i) == Rgb(EncodeCells(line, i).fg_color)
DisplayedBg(line, i) == Rgb(EncodeCells(line, i).bg_color)

\* C25: in the encoded row every cell whose foreground is None is displayed
\* in white and every cell whose background is None on black, at every
\* position of the row and whatever the colours of the cells before it.
C25_NoColourIsTheDefault ==
    e_pc = "drawn" =>
        \A i \in 1..Len(e_line) :
            /\ e_line[i].foreground = NoColor => DisplayedFg(e_line, i) = White
            /\ e_line[i].background = NoColor => DisplayedBg(e_line, i) = Black

\* Supporting: what the encoder does.  A cell without a colour is displayed
\* with the default only when every cell before it is without that colour
\* too; after a coloured cell it is displayed in that cell's colour, and no
\* code is written for it.
C25_NoColourKeepsTheLastColour ==
    e_pc = "drawn" =>
        \A i \in 1..Len(e_line) :
            /\ e_line[i].foreground = NoColor =>
                   /\ DisplayedFg(e_line, i) = IF i = 1 THEN White ELSE DisplayedFg(e_line, i - 1)
                   /\ i > 1 => Occurrences(FgPrefix, CellOutput(e_line, i)) = 0
            /\ e_line[i].background = NoColor =>
                   /\ DisplayedBg(e_line, i) = IF i = 1 THEN Black ELSE DisplayedBg(e_line, i - 1)
                   /\ i > 1 => Occurrences(BgPrefix, CellOutput(e_line, i)) = 0

\* Supporting: a row whose cells are all without colours is white on black
C25_WitnessAllDefault ==
    /\ e_pc = "drawn" /\ Len(e_line) = 2
    /\ \A i \in 1..2 : e_line[i].foreground = NoColor /\ e_line[i].background = NoColor
    /\ DisplayedFg(e_line, 2) = White /\ DisplayedBg(e_line, 2) = Black


-----------------------------------------------------------------------------
(* The Application reference in view trees: claim C26.                     *)

Range(s) == {s[i] : i \in DOMAIN s}

\* The views reachable through subviews() from the views of S, in at most n
\* steps
RECURSIVE ReachableFrom(_, _)
ReachableFrom(S, n) ==
    IF n = 0 THEN S
    ELSE ReachableFrom(S \cup UNION {Range(subviews(Heap, v)) : v \in S}, n - 1)

MainViews == IF main_view = NoView THEN {} ELSE {main_view[1]}

PanelContentViews ==
    {panels[p].content_view : p \in {q \in DOMAIN panels :
                                       panels[q].application /\ panels[q].content_view # NilView}}

\* The last responder of the chain that starts at view v
RECURSIVE ChainEnd(_, _)
ChainEnd(v, n) ==
    LET nr == next_responder(Heap, v)
    IN  IF nr \in {"Application", "None"} \/ n = 0 THEN nr ELSE ChainEnd(nr, n - 1)

HoldTheApplication(S) ==
    \A v \in ReachableFrom(S, Cardinality(DOMAIN views)) :
        /\ views[v].application
        /\ ChainEnd(v, Cardinality(DOMAIN views)) = "Application"

\* C26: once a view tree is attached to the Application, as its main view or
\* as the content view of a panel whose application is set, every view
\* reachable through subviews() from the attached view holds the
\* Application, and its responder chain ends at the Application, whatever
\* set_superview, set_application and subview assignments follow.
C26_ApplicationReachesEveryView ==
    HoldTheApplication(MainViews \cup PanelContentViews)

\* Supporting: every view of the main view's tree holds the Application, and
\* its chain ends at the Application unless a view on its way was given a
\* superview that holds none
C26_MainViewTreeHoldsTheApplication ==
    \A v \in ReachableFrom(MainViews, Cardinality(DOMAIN views)) :
        /\ views[v].application
        /\ \/ ChainEnd(v, Cardinality(DOMAIN views)) = "Application"
           \/ \E u \in DOMAIN views :
                 views[u].superview # NilView /\ ~ views[views[u].superview].application

\* Supporting: a container with subviews of its own is given to the main
\* view after the attachment, and the whole of it holds the Application
C26_WitnessMainView ==
    /\ main_view # NoView /\ main_view[1] = "split"
    /\ l_last = Op("set_first_subview", "inner", <<0, 0>>)
    /\ views["split"].first_subview = "inner"
    /\ views["inner"].first_subview = "fill"
    /\ views["fill"].application

\* Supporting: a content view given to a panel after the panel was added to
\* the Application (the order of test.py:164 and 181) holds no Application
C26_WitnessPanel ==
    /\ panels["p1"].application
    /\ panels["p1"].content_view = "split"
    /\ ~ views["split"].application
    /\ ChainEnd("e1", 2) = "None"


-----------------------------------------------------------------------------
(* Parent and child links: claim C29.                                      *)

\* C29: after any sequence of subview assignments a view's superview is p
\* only if the view is among p.subviews(), so a view that was replaced no
\* longer has the container as its next responder.
C29_SuperviewHoldsTheView ==
    \A v \in DOMAIN views :
        views[v].superview # NilView =>
            v \in Range(subviews(Heap, views[v].superview))

\* Supporting: the converse link is kept for every view that a setter has
\* installed: the subview a setter was last given has the container as its
\* superview, unless it was given to another container since.
C29_AssignedViewPointsToItsContainer ==
    [][\A c \in {"split", "inner", "clip"} :
          \A i \in 1..Len(subviews(Heap, c)) :
              subviews([panels |-> panels', views |-> views'], c)[i] # subviews(Heap, c)[i] =>
                  views'[subviews([panels |-> panels', views |-> views'], c)[i]].superview = c]_vars

\* Supporting: the FillView replaced as first subview of the SplitView still
\* names the SplitView as its superview and next responder
C29_WitnessReplaced ==
    /\ l_last = Op("set_first_subview", "plain", <<0, 0>>)
    /\ views["split"].first_subview = "plain"
    /\ views["split"].second_subview = "e2"
    /\ views["fill"].superview = "split"
    /\ next_responder(Heap, "fill") = "split"


-----------------------------------------------------------------------------
(* The cursor the application asked for: claim C27.                        *)

CursorAsRequested ==
    /\ cursor_is_visible = application_cursor_is_visible
    /\ cursor_position = application_cursor_position

\* C27: whenever the main loop is blocked waiting for the next event, the
\* cursor state the ScreenManager tracks is the one the hosted application
\* last requested, after any sequence of Screen.draw, show_cursor,
\* hide_cursor, set_cursor_position calls and Resize events.
C27_CursorIsTheRequestedOne ==
    (pc = "wait" /\ main_queue = <<>>) => CursorAsRequested

\* Supporting: it is so while the Application has a main view, which it
\* draws at the end of every frame, and after every Screen.draw.
C27_CursorRequestedAfterDraw ==
    /\ [](pc = "wait" /\ main_view # NoView => CursorAsRequested)
    /\ [][ScreenCall /\ screen_contents'.of = "frame" /\ repaints' # repaints
            => CursorAsRequested']_vars

\* Supporting: the cursor was shown at (5, 10), a Resize event came, and the
\* Application, which has no main view, waits with the cursor hidden at (0, 0)
C27_WitnessResize ==
    /\ pc = "wait" /\ handled = "ResizeEvent" /\ main_view = NoView
    /\ application_cursor_is_visible /\ application_cursor_position = <<5, 10>>
    /\ ~ cursor_is_visible /\ cursor_position = <<0, 0>>


-----------------------------------------------------------------------------
(* First responder after a refused hand-over: claim C28.                   *)

\* the responder has completed resign_first_responder since it last became
\* first responder
HasResigned(r) == r # NoResponder /\ fr_state[r] = "resigned"

\* C28: neither the Application nor the Panel records as its first responder
\* a responder whose resign_first_responder has returned true since its last
\* successful become_first_responder.
C28_FirstResponderHasNotResigned ==
    ~HasResigned(fr_app) /\ ~HasResigned(fr_panel)

\* what the code does give: after a call whose every step returned true the
\* recorded first responder is the candidate, and it has just become first
\* responder
C28_CandidateIsFirstAfterSuccess ==
    (fr_last.owner # "none"
        /\ Len(fr_last.calls) = Len(AllSteps(fr_last.before, fr_last.responder))
        /\ \A i \in 1..Len(fr_last.calls) : fr_last.calls[i].result)
    => LET recorded == IF fr_last.owner = "application" THEN fr_app ELSE fr_panel
       IN  recorded = fr_last.responder /\ fr_state[recorded] = "first"

\* the first responder resigned and the candidate then refused
C28_WitnessRefusedAfterResign ==
    /\ fr_last.owner = "application"
    /\ fr_last.before # NoResponder
    /\ Len(fr_last.calls) = 2
    /\ fr_last.calls[1].result /\ ~fr_last.calls[2].result
    /\ fr_app = fr_last.before
    /\ fr_panel = NoResponder

====
